---- MODULE Spec2Model ----
(***************************************************************************)
(* The Intcode virtual machine of src/src/intcode.rs: the decoder, the     *)
(* growable tape, the IO channel, Execution::step, run_to_completion, the  *)
(* cooperative scheduler Program::run_concurrently, and the rest of the    *)
(* Program API: from_str, set_address and run_problem2.                    *)
(*                                                                         *)
(* Tape cells are Rust i64 and indices are usize.  TLC's integers are 32   *)
(* bits wide, so both widths are scaled to WordBits bits: every rule of    *)
(* the arithmetic (truncating %, /, wrap or panic on overflow, the         *)
(* reinterpreting cast `as usize`, Vec's capacity limit) is kept, with     *)
(* 2^WordBits standing for 2^64.                                           *)
(***************************************************************************)
EXTENDS Integers, Sequences, FiniteSets, TLC

VARIABLES code, ios, pc, run_queue, execs, execution, result, last, trace, iolog,
          opword, decoded, text, parsed, patches, args

\* A StaticIO driven by hand: the channel, the inputs passed to new, and the
\* calls made on it so far.
VARIABLES sio, sio_inputs, sio_log

sio_vars == <<sio, sio_inputs, sio_log>>

\* utils::permute: the Permutations iterator, the items next has returned,
\* and how many times next has returned None.
VARIABLES perm, perm_items, perm_ended

perm_vars == <<perm, perm_items, perm_ended>>

\* tree::Tree: the parent relation of an implementer (0 is None) and the
\* last call of shortest_path with its result.
VARIABLES tree, path_call

tree_vars == <<tree, path_call>>

\* problem15: the Droid channel and the latest call the program made on it.
VARIABLES droid, droid_call

droid_vars == <<droid, droid_call>>

\* problem13: the Game channel, the latest call made on it with the Game as
\* it was before, and the number of outputs accepted so far.
VARIABLES game, game_call, game_accepted

game_vars == <<game, game_call, game_accepted>>

\* problem11: the RobotIO channel with its Robot, the colour the Robot was
\* built with, and the calls made so far, each with the Robot before and
\* after it.
VARIABLES robot_io, start_color, robot_log

robot_vars == <<robot_io, start_color, robot_log>>

\* The variables of the Intcode machine and of the Program API.
intcode_vars ==
    <<code, ios, pc, run_queue, execs, execution, result, last, trace, iolog,
      opword, decoded, text, parsed, patches, args>>

\* The variables outside the Intcode machine.
others == <<sio_vars, perm_vars, tree_vars, droid_vars, game_vars, robot_vars>>

vars == <<intcode_vars, others>>

(***************************************************************************)
(* Bounds of the model.                                                    *)
(***************************************************************************)
WordBits == 16
MaxLen == 3
MaxExecs == 3
MaxInput == 2

RECURSIVE Pow2(_)
Pow2(n) == IF n = 0 THEN 1 ELSE 2 * Pow2(n - 1)

I64Min == -Pow2(WordBits - 1)
I64Max == Pow2(WordBits - 1) - 1
UsizeMax == Pow2(WordBits) - 1
\* Vec<i64> refuses ("capacity overflow") a length whose byte size exceeds
\* isize::MAX: with 8-byte cells that is 2^(bits-4) cells.
MaxAlloc == Pow2(WordBits - 4)

(***************************************************************************)
(* Rust integer arithmetic.                                                *)
(***************************************************************************)
Abs(x) == IF x < 0 THEN -x ELSE x

\* The remainder of floored division, which is never negative.
FloorRem(a, n) == a % n

\* i64 `%` and `/` truncate toward zero (n > 0 here).
RustRem(a, n) == IF a >= 0 THEN a % n ELSE -((-a) % n)
RustDiv(a, n) == IF a >= 0 THEN a \div n ELSE -((-a) \div n)

\* Two's-complement wrap of a mathematical integer into i64.
WrapI64(v) == ((v - I64Min) % (UsizeMax + 1)) + I64Min

\* `x as usize`: the bit pattern reinterpreted.
AsUsize(v) == IF v >= 0 THEN v ELSE UsizeMax + 1 + v
\* `x as i64` of a bool.
BoolAsI64(b) == IF b THEN 1 ELSE 0

\* x * y modulo 2^WordBits without leaving TLC's integer range.
RECURSIVE MulMod(_, _)
MulMod(x, y) ==
    IF y = 0 THEN 0
    ELSE LET h == MulMod(x, y \div 2)
         IN  (2 * h + (IF y % 2 = 1 THEN x ELSE 0)) % (UsizeMax + 1)

MulFits(x, y) ==
    \/ x = 0 \/ y = 0
    \/ Abs(x) <= I64Max \div Abs(y)
    \/ /\ (x < 0) # (y < 0)             \* the product is exactly i64::MIN
       /\ (I64Max + 1) % Abs(y) = 0
       /\ Abs(x) = (I64Max + 1) \div Abs(y)

\* The result of an i64 operation: [ok, val].  ok = FALSE is the panic
\* "attempt to add/multiply with overflow" of a build with overflow checks;
\* without them the value wraps.
Arith(v, fits, wrapped, checked) ==
    IF fits THEN [ok |-> TRUE, val |-> v]
    ELSE IF checked THEN [ok |-> FALSE, val |-> 0]
    ELSE [ok |-> TRUE, val |-> wrapped]

AddI64(x, y, checked) ==
    Arith(x + y, x + y >= I64Min /\ x + y <= I64Max, WrapI64(x + y), checked)

MulI64(x, y, checked) ==
    IF MulFits(x, y)
    THEN [ok |-> TRUE, val |-> x * y]
    ELSE Arith(0, FALSE, WrapI64(MulMod(AsUsize(x), AsUsize(y))), checked)

(***************************************************************************)
(* The decoder.                                                            *)
(***************************************************************************)
ParameterMode_from_i64(i) ==
    CASE i = 0 -> "Position"
      [] i = 1 -> "Immediate"
      [] i = 2 -> "Relative"
      [] OTHER -> "None"

hundreds_digit(i) == RustDiv(RustRem(i, 1000), 100)

\* The digit one place too low.
thousands_digit_low(i) == RustDiv(RustRem(i, 1000), 100)

thousands_digit(i) == RustDiv(RustRem(i, 10000), 1000)
ten_thousands_digit(i) == RustDiv(RustRem(i, 100000), 10000)

first_parameter_mode(i) == ParameterMode_from_i64(hundreds_digit(i))
second_parameter_mode(i) == ParameterMode_from_i64(thousands_digit(i))
third_parameter_mode(i) == ParameterMode_from_i64(ten_thousands_digit(i))

\* Option<Op>: tag "None" is the decode failure.
NoOp == [tag |-> "None", modes |-> <<>>]

\* The `?` on each mode: one None makes the whole decode None.
MkOp(tag, modes) ==
    IF \E k \in 1..Len(modes) : modes[k] = "None"
    THEN NoOp
    ELSE [tag |-> tag, modes |-> modes]

Modes3(i) == <<first_parameter_mode(i), second_parameter_mode(i), third_parameter_mode(i)>>
Modes2(i) == <<first_parameter_mode(i), second_parameter_mode(i)>>
Modes1(i) == <<first_parameter_mode(i)>>

from_i64(i) ==
    LET o == RustRem(i, 100)
    IN  CASE o = 1 -> MkOp("Add", Modes3(i))
          [] o = 2 -> MkOp("Mul", Modes3(i))
          [] o = 3 -> MkOp("Input", Modes1(i))
          [] o = 4 -> MkOp("Output", Modes1(i))
          [] o = 5 -> MkOp("JumpIfTrue", Modes2(i))
          [] o = 6 -> MkOp("JumpIfFalse", Modes2(i))
          [] o = 7 -> MkOp("LessThan", Modes3(i))
          [] o = 8 -> MkOp("EqualTo", Modes3(i))
          [] o = 9 -> MkOp("AdjustRelativeBase", Modes1(i))
          [] o = 99 -> [tag |-> "Exit", modes |-> <<>>]
          [] OTHER -> NoOp

(***************************************************************************)
(* IO channels.  A channel is [kind, inputs, outputs, accept]:             *)
(*   StaticIO  the fixed-queue harness;                                    *)
(*   NoIO      refuses every call;                                         *)
(*   Limited   an implementer of the trait that supplies its inputs in     *)
(*             order and accepts `accept` outputs, then refuses.           *)
(* A call returns [some, val, io]: some = FALSE is Rust's None.            *)
(***************************************************************************)
Reverse(s) == [k \in 1..Len(s) |-> s[Len(s) + 1 - k]]

\* A constructor that keeps the list as passed: pop then takes the last first.
StaticIO_new_unreversed(inputs) ==
    [kind |-> "StaticIO", inputs |-> inputs, outputs |-> <<>>, accept |-> 0]

StaticIO_new(inputs) ==
    [kind |-> "StaticIO", inputs |-> Reverse(inputs), outputs |-> <<>>, accept |-> 0]

NoIO == [kind |-> "NoIO", inputs |-> <<>>, outputs |-> <<>>, accept |-> 0]

LimitedIO(inputs, accept) ==
    [kind |-> "Limited", inputs |-> inputs, outputs |-> <<>>, accept |-> accept]

StaticIO_input(io) ==
    IF Len(io.inputs) = 0
    THEN [some |-> FALSE, val |-> 0, io |-> io]
    ELSE [some |-> TRUE, val |-> io.inputs[Len(io.inputs)],
          io |-> [io EXCEPT !.inputs = SubSeq(io.inputs, 1, Len(io.inputs) - 1)]]

StaticIO_output(io, value) ==
    [some |-> TRUE, val |-> 0, io |-> [io EXCEPT !.outputs = Append(io.outputs, value)]]

IO_input(io) ==
    CASE io.kind = "StaticIO" -> StaticIO_input(io)
      [] io.kind = "NoIO" -> [some |-> FALSE, val |-> 0, io |-> io]
      [] OTHER ->
            IF Len(io.inputs) = 0
            THEN [some |-> FALSE, val |-> 0, io |-> io]
            ELSE [some |-> TRUE, val |-> Head(io.inputs),
                  io |-> [io EXCEPT !.inputs = Tail(io.inputs)]]

IO_output(io, value) ==
    CASE io.kind = "StaticIO" -> StaticIO_output(io, value)
      [] io.kind = "NoIO" -> [some |-> FALSE, val |-> 0, io |-> io]
      [] OTHER ->
            IF Len(io.outputs) < io.accept
            THEN [some |-> TRUE, val |-> 0,
                  io |-> [io EXCEPT !.outputs = Append(io.outputs, value)]]
            ELSE [some |-> FALSE, val |-> 0, io |-> io]

(***************************************************************************)
(* The tape.  Address a is state[a + 1].  A tape operation returns         *)
(* [ok, val, state]; ok = FALSE is a panic (index out of bounds, capacity  *)
(* overflow, arithmetic overflow), which unwinds out of step.              *)
(***************************************************************************)
\* `let x = v; F(x)`, with v evaluated once.
Let(v, F(_)) == CHOOSE y \in {F(x) : x \in {v}} : TRUE

Zeros(n) == [k \in 1..n |-> 0]

Panic(state) == [ok |-> FALSE, val |-> 0, state |-> state]

\* `ix + 1` overflows usize at usize::MAX (a panic with overflow checks; a
\* wrap to resize(0) without, after which the access itself panics), and
\* resize panics or the allocation aborts past MaxAlloc cells.
ensure_capacity(state, ix) ==
    IF ix >= Len(state)
    THEN IF ix = UsizeMax \/ ix + 1 > MaxAlloc
         THEN Panic(state)
         ELSE [ok |-> TRUE, val |-> 0, state |-> state \o Zeros(ix + 1 - Len(state))]
    ELSE [ok |-> TRUE, val |-> 0, state |-> state]

read_raw(state, ix) ==
    Let(ensure_capacity(state, ix), LAMBDA c :
        IF c.ok THEN [ok |-> TRUE, val |-> c.state[ix + 1], state |-> c.state] ELSE c)

write_raw(state, ix, value) ==
    Let(ensure_capacity(state, ix), LAMBDA c :
        IF c.ok
        THEN [ok |-> TRUE, val |-> 0, state |-> [c.state EXCEPT ![ix + 1] = value]]
        ELSE c)

as_address_lenient(param, mode, relative_base, checked) ==
    CASE mode = "Relative" ->
            Let(AddI64(param, relative_base, checked), LAMBDA a :
                [ok |-> a.ok, val |-> AsUsize(a.val)])
      [] OTHER -> [ok |-> TRUE, val |-> AsUsize(param)]

\* [ok, val]: the address, or the panic of Immediate mode (or of the
\* overflowing `param + relative_base` under overflow checks).
as_address(param, mode, relative_base, checked) ==
    CASE mode = "Position" -> [ok |-> TRUE, val |-> AsUsize(param)]
      [] mode = "Relative" ->
            Let(AddI64(param, relative_base, checked), LAMBDA a :
                [ok |-> a.ok, val |-> AsUsize(a.val)])
      [] OTHER -> [ok |-> FALSE, val |-> 0]

\* `self.state[pos]` is a plain index: past the end it panics.
do_read(state, relative_base, pos, mode, checked) ==
    IF pos >= Len(state) THEN Panic(state)
    ELSE IF mode = "Immediate"
    THEN [ok |-> TRUE, val |-> state[pos + 1], state |-> state]
    ELSE Let(as_address(state[pos + 1], mode, relative_base, checked), LAMBDA a :
             IF a.ok THEN read_raw(state, a.val) ELSE Panic(state))

do_write(state, relative_base, pos, mode, value, checked) ==
    IF pos >= Len(state) THEN Panic(state)
    ELSE Let(as_address(state[pos + 1], mode, relative_base, checked), LAMBDA a :
             IF a.ok THEN write_raw(state, a.val, value) ELSE Panic(state))

BinOp_add(tag, x, y, checked) == AddI64(x, y, checked)

BinOp_less(tag, x, y, checked) ==
    CASE tag = "Add" -> AddI64(x, y, checked)
      [] tag = "Mul" -> MulI64(x, y, checked)
      [] OTHER -> [ok |-> TRUE, val |-> BoolAsI64(x < y)]

\* The closure handed to do_binop, as [ok, val].
BinOp(tag, x, y, checked) ==
    CASE tag = "Add" -> AddI64(x, y, checked)
      [] tag = "Mul" -> MulI64(x, y, checked)
      [] tag = "LessThan" -> [ok |-> TRUE, val |-> BoolAsI64(x < y)]
      [] OTHER -> [ok |-> TRUE, val |-> BoolAsI64(x = y)]

do_binop(e, lhs_mode, rhs_mode, dest_mode, tag, checked) ==
    Let(do_read(e.state, e.relative_base, e.pos + 1, lhs_mode, checked), LAMBDA lhs :
        IF ~lhs.ok THEN lhs
        ELSE Let(do_read(lhs.state, e.relative_base, e.pos + 2, rhs_mode, checked),
                 LAMBDA rhs :
            IF ~rhs.ok THEN rhs
            ELSE Let(BinOp(tag, lhs.val, rhs.val, checked), LAMBDA v :
                IF ~v.ok THEN Panic(rhs.state)
                ELSE do_write(rhs.state, e.relative_base, e.pos + 3, dest_mode,
                              v.val, checked))))

(***************************************************************************)
(* Execution.  An Execution is [state, pos, relative_base]; its IO channel *)
(* is passed beside it.  step returns                                      *)
(*   [kind, exec, io, code, pos, calls]                                    *)
(* kind: Running, DidOutput, Halted (Ok), BadOp, InputError, OutputError   *)
(* (Err; BadOp carries code and pos), or Abort (a panic: no value is       *)
(* returned).  calls lists the IO calls the step made.                     *)
(***************************************************************************)
Execution_new(state) == [state |-> state, pos |-> 0, relative_base |-> 0]

Ret(kind, e, io, calls) ==
    [kind |-> kind, exec |-> e, io |-> io, code |-> 0, pos |-> 0, calls |-> calls]

InputCall(r) == [op |-> "input", val |-> r.val, some |-> r.some]
OutputCall(v, r) == [op |-> "output", val |-> v, some |-> r.some]

step_binop(e, io, op, checked) ==
    Let(do_binop(e, op.modes[1], op.modes[2], op.modes[3], op.tag, checked), LAMBDA w :
        IF w.ok
        THEN Ret("Running", [e EXCEPT !.state = w.state, !.pos = e.pos + 4], io, <<>>)
        ELSE Ret("Abort", e, io, <<>>))

\* The test that makes the jump taken.
Fires(tag, test) == (tag = "JumpIfTrue" /\ test # 0) \/ (tag = "JumpIfFalse" /\ test = 0)

step_jump(e, io, op, checked) ==
    Let(do_read(e.state, e.relative_base, e.pos + 1, op.modes[1], checked), LAMBDA test :
        IF ~test.ok THEN Ret("Abort", e, io, <<>>)
        ELSE IF Fires(op.tag, test.val)
        THEN Let(do_read(test.state, e.relative_base, e.pos + 2, op.modes[2], checked),
                 LAMBDA target :
                 IF ~target.ok THEN Ret("Abort", e, io, <<>>)
                 ELSE Ret("Running",
                          [e EXCEPT !.state = target.state, !.pos = AsUsize(target.val)],
                          io, <<>>))
        ELSE Ret("Running", [e EXCEPT !.state = test.state, !.pos = e.pos + 3], io, <<>>))

step_input(e, io, op, checked) ==
    Let(IO_input(io), LAMBDA r :
        IF ~r.some THEN Ret("InputError", e, r.io, <<InputCall(r)>>)
        ELSE Let(do_write(e.state, e.relative_base, e.pos + 1, op.modes[1], r.val,
                          checked),
                 LAMBDA w :
                 IF ~w.ok THEN Ret("Abort", e, r.io, <<InputCall(r)>>)
                 ELSE Ret("Running", [e EXCEPT !.state = w.state, !.pos = e.pos + 2],
                          r.io, <<InputCall(r)>>)))

step_output(e, io, op, checked) ==
    Let(do_read(e.state, e.relative_base, e.pos + 1, op.modes[1], checked), LAMBDA value :
        IF ~value.ok THEN Ret("Abort", e, io, <<>>)
        ELSE Let(IO_output(io, value.val), LAMBDA r :
                 IF ~r.some
                 THEN Ret("OutputError", [e EXCEPT !.state = value.state], r.io,
                          <<OutputCall(value.val, r)>>)
                 ELSE Ret("DidOutput",
                          [e EXCEPT !.state = value.state, !.pos = e.pos + 2], r.io,
                          <<OutputCall(value.val, r)>>)))

step_adjust_fixed(e, io, op, checked) ==
    Ret("Running", [e EXCEPT !.pos = e.pos + 2], io, <<>>)

step_adjust(e, io, op, checked) ==
    Let(do_read(e.state, e.relative_base, e.pos + 1, op.modes[1], checked), LAMBDA value :
        IF ~value.ok THEN Ret("Abort", e, io, <<>>)
        ELSE Let(AddI64(e.relative_base, value.val, checked), LAMBDA rb :
                 IF ~rb.ok THEN Ret("Abort", e, io, <<>>)
                 ELSE Ret("Running",
                          [state |-> value.state, pos |-> e.pos + 2,
                           relative_base |-> rb.val],
                          io, <<>>)))

step_exit_advance(e, io) == Ret("Halted", [e EXCEPT !.pos = e.pos + 1], io, <<>>)

step_exit(e, io) == Ret("Halted", e, io, <<>>)

step_none_opcode(e, io, word) ==
    [kind |-> "BadOp", exec |-> e, io |-> io, code |-> RustRem(word, 100), pos |-> e.pos,
     calls |-> <<>>]

step_none(e, io, word) ==
    [kind |-> "BadOp", exec |-> e, io |-> io, code |-> word, pos |-> e.pos,
     calls |-> <<>>]

Dispatch(e, io, word, op, checked) ==
    CASE op.tag \in {"Add", "Mul", "LessThan", "EqualTo"} -> step_binop(e, io, op, checked)
      [] op.tag \in {"JumpIfTrue", "JumpIfFalse"} -> step_jump(e, io, op, checked)
      [] op.tag = "Input" -> step_input(e, io, op, checked)
      [] op.tag = "Output" -> step_output(e, io, op, checked)
      [] op.tag = "Exit" -> step_exit(e, io)
      [] op.tag = "AdjustRelativeBase" -> step_adjust(e, io, op, checked)
      [] OTHER -> step_none(e, io, word)

\* `self.state[self.pos]` is a plain index: past the end it panics.
step(e, io, checked) ==
    IF e.pos >= Len(e.state) THEN Ret("Abort", e, io, <<>>)
    ELSE Let(from_i64(e.state[e.pos + 1]), LAMBDA op :
             Dispatch(e, io, e.state[e.pos + 1], op, checked))

\* run_to_completion as a function: the result of the step that ends the
\* loop (Halted, an error or Abort), or kind "Unfinished" after `fuel` steps.
RECURSIVE run_to_completion(_, _, _, _)
run_to_completion(e, io, checked, fuel) ==
    Let(step(e, io, checked), LAMBDA r :
        IF r.kind \in {"Running", "DidOutput"}
        THEN IF fuel = 0 THEN [r EXCEPT !.kind = "Unfinished"]
             ELSE run_to_completion(r.exec, r.io, checked, fuel - 1)
        ELSE r)

(***************************************************************************)
(* Programs and channels the model runs.                                   *)
(***************************************************************************)
\* Reads n, then emits n, n+1, n+2 and halts.
Emit3 == <<3, 17, 4, 17, 1001, 17, 1, 17, 4, 17, 1001, 17, 1, 17, 4, 17, 99, 0>>

\* Reads n, then emits n, n-1, ..., 1 and ends on the word `last_word`
\* (99 halts, an undecodable word fails).
CountDown(last_word) ==
    <<3, 15, 1006, 15, 14, 4, 15, 1001, 15, -1, 15, 1105, 1, 2, last_word, 0>>

NamedPrograms == {Emit3, CountDown(99), CountDown(304)}

\* Reads v and emits 1 if v = 8, else 0 (Position mode throughout).
EqualsEight == <<3, 9, 8, 9, 10, 9, 4, 9, 99, -1, 8>>

\* Emits its own tape: each turn of its loop adds 1 to the relative base rb
\* and emits cell rb - 1, with the counter in cell 100 and the test in cell
\* 101, both past the end.
Quine == <<109, 1, 204, -1, 1001, 100, 1, 100, 1008, 100, 16, 101, 1006, 101, 0, 99>>

\* The steps of the Quine: five instructions a cell, and the Halt.
QuineSteps == 5 * Len(Quine) + 1

\* Words of the enumerated tapes: undecodable (0, -1), Input (3, and 103 with
\* an Immediate destination), Output (4), Halt (99).
Words == {0, 3, 4, 99, -1, 103}

RECURSIVE SeqsUpTo(_, _)
SeqsUpTo(S, n) ==
    IF n = 0 THEN {<<>>}
    ELSE LET shorter == SeqsUpTo(S, n - 1)
         IN  shorter \cup {Append(t, w) : t \in {u \in shorter : Len(u) = n - 1}, w \in S}

SmallTapes == SeqsUpTo(Words, MaxLen) \ {<<>>}

\* Channels for the enumerated tapes: one that supplies an input and takes
\* every output, one that refuses everything, one that takes one output.
SmallChannels == {StaticIO_new(<<4>>), NoIO, LimitedIO(<<99>>, 1)}

\* Channels for the named programs.
NamedChannels ==
    {StaticIO_new(<<n>>) : n \in 0..MaxInput}
        \cup {StaticIO_new(<<>>), LimitedIO(<<MaxInput>>, 1)}

\* Steps one Execution of a named program needs on an input in 0..MaxInput.
PerExecSteps == 4 * MaxInput + 8
\* The cap on the steps of one call: enough for MaxExecs named programs and
\* for the Quine.
StepLimit ==
    IF MaxExecs * PerExecSteps > QuineSteps THEN MaxExecs * PerExecSteps ELSE QuineSteps

(***************************************************************************)
(* State.                                                                  *)
(*   code       Program.code                                               *)
(*   ios        the caller's channels (the Vec<T> of run_concurrently)     *)
(*   execs      the Executions created so far, by the index of their       *)
(*              channel                                                    *)
(*   run_queue  the VecDeque of run_concurrently (indices into execs)      *)
(*   execution  the Execution popped and being stepped (0: none)           *)
(*   pc         idle, pop (the `while let`), step (the inner loop), rtc    *)
(*              (the loop of run_to_completion), done                      *)
(*   result     what the call returned: Pending, Ok, an ExecuteError, or   *)
(*              Abort (it never returned)                                  *)
(*   last       the latest step: its Execution and channel before and      *)
(*              after, and what it returned                                *)
(*   trace      every step so far: [exec, kind, queue, ncalls, pre]        *)
(*              (queue: the run queue during the step; ncalls: IO calls    *)
(*              made by then; pre: the Execution before the step)          *)
(*   iolog      every IO call so far: [ch, op, val, some]                  *)
(*   opword     the word handed to the decoder on its own                  *)
(*   decoded    what the decoder made of it: [op, digits]                  *)
(*   text       the program text handed to from_str, a sequence of         *)
(*              characters                                                 *)
(*   parsed     what from_str returned: None yet, Ok, or ParseError with   *)
(*              its token                                                  *)
(*   patches    the set_address calls made so far: [addr, value, at] (at:  *)
(*              the pc of the call)                                        *)
(*   args       the arguments of the run_problem2 call, if one was made    *)
(* A result is [kind, code, pos]: code and pos are those of BadOp; pos is  *)
(* also the index of OutOfBounds and code the i64 of run_problem2's Ok.    *)
(***************************************************************************)
NoResult == [kind |-> "Pending", code |-> 0, pos |-> 0]

\* from_str has not run.
NoParse == [kind |-> "None", tape |-> <<>>, token |-> <<>>]

\* run_problem2 has not been called.
NoArgs == [called |-> FALSE, noun |-> 0, verb |-> 0, output_index |-> 0]

\* The decoder has not run.
Undecoded == [op |-> [tag |-> "Undecoded", modes |-> <<>>], digits |-> <<>>]

NoStep ==
    [exec |-> 0, kind |-> "None", pre |-> Execution_new(<<>>),
     post |-> Execution_new(<<>>), ioPre |-> NoIO, ioPost |-> NoIO,
     code |-> 0, pos |-> 0, calls |-> <<>>, api |-> "none"]

\* The hand-driven StaticIO has not been built.
SioIdle ==
    /\ sio = NoIO
    /\ sio_inputs = <<>>
    /\ sio_log = <<>>

\* No Permutations has been built.
PermIdle ==
    /\ perm = [values |-> <<>>, ix |-> 0, max_ix |-> 0]
    /\ perm_items = <<>>
    /\ perm_ended = 0

\* No tree has been built.
NoPath == [called |-> FALSE, start |-> 0, end |-> 0, panic |-> FALSE, path |-> <<>>]

TreeIdle ==
    /\ tree = <<>>
    /\ path_call = NoPath

\* No call has been made on the Droid.
NoDroidCall ==
    [op |-> "none", some |-> FALSE, val |-> 0, panic |-> "",
     popped |-> FALSE, goal |-> <<0, 0>>, from |-> <<0, 0>>]

\* No Droid has been built.
DroidIdle ==
    /\ droid = <<>>
    /\ droid_call = NoDroidCall

\* An optional value: None, or Some(v).
None == [some |-> FALSE, val |-> 0]
Some(v) == [some |-> TRUE, val |-> v]

\* Game::new
Game_new == [screen |-> <<>>, state |-> <<>>, score |-> None, ball |-> None, paddle |-> None]

NoGameCall == [op |-> "none", value |-> 0, some |-> FALSE, ret |-> 0, pre |-> Game_new]

\* No call has been made on the Game.
GameIdle ==
    /\ game = Game_new
    /\ game_call = NoGameCall
    /\ game_accepted = 0

\* Robot::new
Robot_new(color) ==
    [panels |-> IF color = "White" THEN (<<0, 0>> :> "White") ELSE <<>>,
     position |-> <<0, 0>>, direction |-> "Up"]

\* RobotIO::new
RobotIO_new(robot) == [robot |-> robot, state |-> "ExpectingColor"]

\* No Robot is in use.
RobotIdle ==
    /\ robot_io = RobotIO_new(Robot_new("Black"))
    /\ start_color = "Black"
    /\ robot_log = <<>>

OthersIdle ==
    /\ SioIdle
    /\ PermIdle
    /\ TreeIdle
    /\ DroidIdle
    /\ GameIdle
    /\ RobotIdle

InitSmall ==
    /\ code \in SmallTapes
    /\ ios \in [1..2 -> SmallChannels]

InitNamed ==
    /\ code \in NamedPrograms
    /\ \E n \in 1..MaxExecs : ios \in [1..n -> NamedChannels]

\* Emit3 on the largest i64: its first addition overflows.
InitOverflow ==
    /\ code = Emit3
    /\ \E n \in 1..2 : ios \in [1..n -> {StaticIO_new(<<I64Max>>), StaticIO_new(<<0>>)}]

Init ==
    /\ InitSmall \/ InitNamed \/ InitOverflow
    /\ pc = "idle"
    /\ run_queue = <<>>
    /\ execs = <<>>
    /\ execution = 0
    /\ result = NoResult
    /\ last = NoStep
    /\ trace = <<>>
    /\ iolog = <<>>
    /\ opword = 0
    /\ decoded = Undecoded
    /\ text = <<>>
    /\ parsed = NoParse
    /\ patches = <<>>
    /\ args = NoArgs
    /\ OthersIdle

(***************************************************************************)
(* Program::run and Execution::run_to_completion.                          *)
(***************************************************************************)
pop_front(q) == Tail(q)

push_front(q, x) == <<x>> \o q
push_back(q, x) == Append(q, x)

IsErr(kind) == kind \in {"BadOp", "InputError", "OutputError"}

\* What the caller gets from a step result that ends the call.
Returned(r) == [kind |-> r.kind, code |-> r.code, pos |-> r.pos]

store_shared(all, id, e) == [j \in DOMAIN all |-> e]

\* `&mut self`: a step changes the Execution it is called on, which owns its
\* tape.
store(all, id, e) == [all EXCEPT ![id] = e]

\* The bookkeeping of one step of Execution id on the channel io with
\* result r.
RecordStep(id, r, api, io) ==
    /\ execs' = store(execs, id, r.exec)
    /\ last' = [exec |-> id, kind |-> r.kind, pre |-> execs[id], post |-> r.exec,
                ioPre |-> io, ioPost |-> r.io, code |-> r.code, pos |-> r.pos,
                calls |-> r.calls, api |-> api]
    /\ trace' = Append(trace, [exec |-> id, kind |-> r.kind, queue |-> run_queue,
                                ncalls |-> Len(iolog) + Len(r.calls),
                                pre |-> execs[id], io |-> io])
    /\ iolog' = iolog \o [k \in 1..Len(r.calls) |->
                            [ch |-> id, op |-> r.calls[k].op, val |-> r.calls[k].val,
                             some |-> r.calls[k].some]]

\* One channel for all: every Execution would see the calls of the others.
io_mut_shared(all, id, io) == [k \in DOMAIN all |-> io]

\* The Execution's `io: &'a mut T`: its calls change the channel it was
\* created with and no other.
io_mut(all, id, io) == [all EXCEPT ![id] = io]

\* A step on the caller's channel id.
Record(id, r, api) ==
    /\ RecordStep(id, r, api, ios[id])
    /\ ios' = io_mut(ios, id, r.io)

\* run(io): one Execution on a clone of the code, run to completion.
CallRun(i) ==
    /\ pc = "idle"
    /\ i \in DOMAIN ios
    /\ execs' = [j \in {i} |-> Execution_new(code)]
    /\ execution' = i
    /\ pc' = "rtc"
    /\ UNCHANGED <<code, ios, run_queue, result, last, trace, iolog, opword, decoded, text, parsed, patches, args>>
    /\ UNCHANGED others

rtc_next_output(kind) == IF kind = "Running" THEN "rtc" ELSE "done"

\* The match of run_to_completion on a step's result: the next pc.
rtc_next(kind) ==
    CASE kind = "Halted" -> "done"
      [] IsErr(kind) \/ kind = "Abort" -> "done"
      [] OTHER -> "rtc"

rtc_result(r) ==
    CASE r.kind = "Halted" -> [kind |-> "Ok", code |-> 0, pos |-> 0]
      [] IsErr(r.kind) \/ r.kind = "Abort" -> Returned(r)
      [] OTHER -> NoResult

RtcStep ==
    /\ pc = "rtc"
    /\ Len(trace) < StepLimit
    /\ \E checked \in BOOLEAN :
         \E r \in {step(execs[execution], ios[execution], checked)} :
             /\ Record(execution, r, "run")
             /\ pc' = rtc_next(r.kind)
             /\ result' = rtc_result(r)
    /\ UNCHANGED <<code, run_queue, execution, opword, decoded, text, parsed, patches, args>>
    /\ UNCHANGED others

(***************************************************************************)
(* Program::run_concurrently.                                              *)
(***************************************************************************)
CallRunConcurrently ==
    /\ pc = "idle"
    /\ run_queue' = [k \in 1..Len(ios) |-> k]
    /\ execs' = [j \in 1..Len(ios) |-> Execution_new(code)]
    /\ pc' = "pop"
    /\ UNCHANGED <<code, ios, execution, result, last, trace, iolog, opword, decoded, text, parsed, patches, args>>
    /\ UNCHANGED others

\* `while let Some(mut execution) = run_queue.pop_front()`, and Ok(()) when
\* the queue is empty.
PopFront ==
    /\ pc = "pop"
    /\ IF Len(run_queue) = 0
       THEN /\ pc' = "done"
            /\ result' = [kind |-> "Ok", code |-> 0, pos |-> 0]
            /\ UNCHANGED <<run_queue, execution>>
       ELSE /\ execution' = Head(run_queue)
            /\ run_queue' = pop_front(run_queue)
            /\ pc' = "step"
            /\ UNCHANGED result
    /\ UNCHANGED <<code, ios, execs, last, trace, iolog, opword, decoded, text, parsed, patches, args>>
    /\ UNCHANGED others

rc_next_swallow(kind) ==
    CASE kind = "Running" -> "step"
      [] OTHER -> "pop"

rc_next_yield(kind) == IF kind \in {"Running", "DidOutput", "Halted"} THEN "pop" ELSE "done"

\* The match of the inner loop on a step's result.
rc_next(kind) ==
    CASE kind = "Running" -> "step"
      [] kind \in {"DidOutput", "Halted"} -> "pop"
      [] OTHER -> "done"

rc_queue_halted(q, id, kind) ==
    IF kind \in {"DidOutput", "Halted"} THEN push_back(q, id) ELSE q

rc_queue_drop(q, id, kind) == q

rc_queue(q, id, kind) == IF kind = "DidOutput" THEN push_back(q, id) ELSE q

rc_execution(id, kind) == IF kind = "Running" THEN id ELSE 0

rc_result(r) == IF IsErr(r.kind) \/ r.kind = "Abort" THEN Returned(r) ELSE NoResult

RcStep ==
    /\ pc = "step"
    /\ Len(trace) < StepLimit
    /\ \E checked \in BOOLEAN :
         \E r \in {step(execs[execution], ios[execution], checked)} :
             /\ Record(execution, r, "run_concurrently")
             /\ pc' = rc_next(r.kind)
             /\ run_queue' = rc_queue(run_queue, execution, r.kind)
             /\ execution' = rc_execution(execution, r.kind)
             /\ result' = rc_result(r)
    /\ UNCHANGED <<code, opword, decoded, text, parsed, patches, args>>
    /\ UNCHANGED others

Next ==
    \/ \E i \in 1..MaxExecs : CallRun(i)
    \/ RtcStep
    \/ CallRunConcurrently
    \/ PopFront
    \/ RcStep

Spec == Init /\ [][Next]_vars

(***************************************************************************)
(* The decoder on its own: from_i64 and the digit helpers applied to every *)
(* word of the width.                                                      *)
(***************************************************************************)
\* No call made yet.
RunIdle ==
    /\ pc = "idle"
    /\ run_queue = <<>>
    /\ execs = <<>>
    /\ execution = 0
    /\ result = NoResult
    /\ last = NoStep
    /\ trace = <<>>
    /\ iolog = <<>>
    /\ text = <<>>
    /\ parsed = NoParse
    /\ patches = <<>>
    /\ args = NoArgs

\* Nothing has been called, inside the Intcode machine or outside it.
Idle == RunIdle /\ OthersIdle

\* The Intcode machine stands by while another part of the crate is driven.
IntcodeIdle ==
    /\ code = <<99>>
    /\ ios = <<NoIO>>
    /\ opword = 0
    /\ decoded = Undecoded
    /\ RunIdle

InitDecode ==
    /\ opword \in I64Min..I64Max
    /\ decoded = Undecoded
    /\ code = <<99>>
    /\ ios = <<NoIO>>
    /\ Idle

Decode ==
    /\ decoded = Undecoded
    /\ decoded' = [op |-> from_i64(opword),
                   digits |-> <<hundreds_digit(opword), thousands_digit(opword),
                                ten_thousands_digit(opword)>>]
    /\ UNCHANGED <<code, ios, pc, run_queue, execs, execution, result, last, trace,
                   iolog, opword, text, parsed, patches, args>>
    /\ UNCHANGED others

DecodeSpec == InitDecode /\ [][Decode]_vars

(***************************************************************************)
(* The two-instruction arithmetic programs [1,x,y,d,99] and [2,x,y,d,99].  *)
(***************************************************************************)
\* A value whose square does not fit an i64.
Big == Pow2(WordBits \div 2)

\* Operands: cells of the program (0..4), cells past its end (5, Big), and
\* addresses that cannot exist (-1, MaxAlloc).
ArithOperands == {-1, 0, 1, 2, 3, 4, 5, Big, MaxAlloc}

ArithPrograms ==
    {<<o, x, y, d, 99>> : o \in {1, 2}, x \in ArithOperands, y \in ArithOperands,
                          d \in ArithOperands}

InitArith ==
    /\ code \in ArithPrograms
    /\ ios = <<NoIO>>
    /\ opword = 0
    /\ decoded = Undecoded
    /\ Idle

ArithSpec == InitArith /\ [][Next]_vars

(***************************************************************************)
(* One instruction of every family in every mode, after an                 *)
(* AdjustRelativeBase that makes the relative base b: [109,b,instr,..,99]. *)
(***************************************************************************)
\* Parameter words: an address before the instruction (0), inside it (3),
\* past the end of the tape (7), and a negative one.
StepOperands == {-1, 0, 3, 7}

Bases == {2, -3}

ModeDigits == 0..2

BinopPrograms ==
    {<<109, b, o + 100 * m1 + 1000 * m2 + 10000 * m3, p1, p2, p3, 99>> :
        b \in Bases, o \in {1, 2, 7, 8},
        m1 \in ModeDigits, m2 \in ModeDigits, m3 \in ModeDigits,
        p1 \in StepOperands, p2 \in StepOperands, p3 \in StepOperands}

JumpPrograms ==
    {<<109, b, o + 100 * m1 + 1000 * m2, p1, p2, 99>> :
        b \in Bases, o \in {5, 6}, m1 \in ModeDigits, m2 \in ModeDigits,
        p1 \in StepOperands, p2 \in StepOperands}

UnaryPrograms ==
    {<<109, b, o + 100 * m1, p1, 99>> :
        b \in Bases, o \in {3, 4, 9}, m1 \in ModeDigits, p1 \in StepOperands}

\* The ends of the ranges: a parameter word missing at the end of the tape,
\* an address at the allocation limit, operands whose sum, product or
\* relative address leaves i64, a second Input after the only value is
\* gone, and a loop that outputs and never halts.
EdgePrograms ==
    { <<3, 0, 103, 0, 99>>, <<104, 1, 1105, 1, 0>>,
      <<1101, 1, 1>>, <<1105, 1>>, <<1106, 0>>, <<9>>, <<204>>, <<203>>,
      <<4, MaxAlloc, 99>>, <<3, MaxAlloc, 99>>, <<1001, MaxAlloc, 1, 0, 99>>,
      <<1101, I64Max, 1, 0, 99>>, <<1102, I64Max, 2, 0, 99>>,
      <<109, I64Max, 109, 1, 99>>, <<109, I64Max, 204, 1, 99>>,
      <<109, I64Max, 203, 1, 99>>, <<109, MaxAlloc, 204, 0, 99>> }

StepPrograms == BinopPrograms \cup JumpPrograms \cup UnaryPrograms \cup EdgePrograms

InitStep ==
    /\ code \in StepPrograms
    /\ ios = <<StaticIO_new(<<5>>)>>
    /\ opword = 0
    /\ decoded = Undecoded
    /\ Idle

StepSpec == InitStep /\ [][Next]_vars

(***************************************************************************)
(* The rest of the Program API: set_address and run_problem2, on small     *)
(* programs, before and after a run.                                       *)
(***************************************************************************)
\* `v[ix] = value` on a Vec is a plain index: past the end it panics.
index_assign(v, ix, value) ==
    IF ix >= Len(v) THEN Panic(v)
    ELSE [ok |-> TRUE, val |-> 0, state |-> [v EXCEPT ![ix + 1] = value]]

set_address_shifted(c, addr, value) == index_assign(c, addr + 1, value)

set_address(c, addr, value) == index_assign(c, addr, value)

AbortResult == [kind |-> "Abort", code |-> 0, pos |-> 0]

\* The most set_address calls on one Program.
MaxPatches == 1

PatchValues == {2, 99, -1}

\* A call of set_address, before a run or after one has returned (the
\* Executions of that run are kept in execs as they ended).
SetAddress ==
    /\ pc \in {"idle", "done"}
    /\ result.kind \notin {"Abort", "ParseError"}
    /\ Len(patches) < MaxPatches
    /\ \E addr \in 0..Len(code), value \in PatchValues :
         \E w \in {set_address(code, addr, value)} :
             /\ code' = w.state
             /\ patches' = Append(patches, [addr |-> addr, value |-> value, at |-> pc])
             /\ pc' = IF w.ok THEN pc ELSE "done"
             /\ result' = IF w.ok THEN result ELSE AbortResult
    /\ UNCHANGED <<ios, run_queue, execs, execution, last, trace, iolog, opword,
                   decoded, text, parsed, args>>
    /\ UNCHANGED others

out_of_bounds_strict(len, output_index) == len < output_index

\* `self.code.len() <= output_index`
out_of_bounds(len, output_index) == len <= output_index

\* The clone with noun and verb in cells 1 and 2.
code_copy(c, noun, verb) ==
    Let(index_assign(c, 1, noun), LAMBDA a :
        IF a.ok THEN index_assign(a.state, 2, verb) ELSE a)

Nouns == {0, 4}

CallRunProblem2 ==
    /\ pc = "idle"
    /\ \E noun \in Nouns, verb \in Nouns, output_index \in 0..Len(code) :
         /\ args' = [called |-> TRUE, noun |-> noun, verb |-> verb,
                     output_index |-> output_index]
         /\ IF out_of_bounds(Len(code), output_index)
            THEN /\ pc' = "done"
                 /\ result' = [kind |-> "OutOfBounds", code |-> 0, pos |-> output_index]
                 /\ UNCHANGED <<execs, execution>>
            ELSE \E c \in {code_copy(code, noun, verb)} :
                     IF c.ok
                     THEN /\ execs' = <<Execution_new(c.state)>>
                          /\ execution' = 1
                          /\ pc' = "rp2"
                          /\ UNCHANGED result
                     ELSE /\ pc' = "done"
                          /\ result' = AbortResult
                          /\ UNCHANGED <<execs, execution>>
    /\ UNCHANGED <<code, ios, run_queue, last, trace, iolog, opword, decoded, text,
                   parsed, patches>>
    /\ UNCHANGED others

\* `Ok(final_state[output_index])`, or the `?` of run_to_completion.
rp2_result(r, output_index) ==
    CASE r.kind = "Halted" ->
            IF output_index < Len(r.exec.state)
            THEN [kind |-> "Ok", code |-> r.exec.state[output_index + 1], pos |-> 0]
            ELSE AbortResult
      [] IsErr(r.kind) \/ r.kind = "Abort" -> Returned(r)
      [] OTHER -> NoResult

\* The loop of run_to_completion, inside run_problem2.
rp2_next(kind) == IF rtc_next(kind) = "rtc" THEN "rp2" ELSE rtc_next(kind)

\* A step of the run_to_completion of run_problem2, on its own NoIO.
Rp2Step ==
    /\ pc = "rp2"
    /\ Len(trace) < StepLimit
    /\ \E checked \in BOOLEAN :
         \E r \in {step(execs[execution], NoIO, checked)} :
             /\ RecordStep(execution, r, "run_problem2", NoIO)
             /\ pc' = rp2_next(r.kind)
             /\ result' = rp2_result(r, args.output_index)
    /\ UNCHANGED <<code, ios, run_queue, execution, opword, decoded, text, parsed,
                   patches, args>>
    /\ UNCHANGED others

\* Adds cell 0 to itself; reads a value and emits it; halts at once, on a
\* tape too short for a noun, and on one too short for a verb.
ProgramTapes == {<<1, 0, 0, 0, 99>>, <<3, 0, 4, 0, 99>>, <<99>>, <<99, 0>>}

ProgramChannels ==
    {<<StaticIO_new(<<7>>)>>, <<StaticIO_new(<<7>>), StaticIO_new(<<8>>)>>, <<NoIO>>}

InitProgram ==
    /\ code \in ProgramTapes
    /\ ios \in ProgramChannels
    /\ opword = 0
    /\ decoded = Undecoded
    /\ Idle

ProgramNext ==
    \/ Next
    \/ SetAddress
    \/ CallRunProblem2
    \/ Rp2Step

ProgramSpec == InitProgram /\ [][ProgramNext]_vars

(***************************************************************************)
(* Program::from_str.  A text is a sequence of one-character strings.      *)
(***************************************************************************)
DigitChars == <<"0", "1", "2", "3", "4", "5", "6", "7", "8", "9">>

IsDigit(ch) == \E d \in 1..10 : DigitChars[d] = ch

\* char::to_digit(10)
to_digit(ch) == (CHOOSE d \in 1..10 : DigitChars[d] = ch) - 1

\* The White_Space characters of the model's alphabet.
Whitespace == {"\n", " "}

\* str::trim_end: the text without its trailing run of whitespace.
RECURSIVE trim_end(_)
trim_end(s) ==
    IF Len(s) > 0 /\ s[Len(s)] \in Whitespace
    THEN trim_end(SubSeq(s, 1, Len(s) - 1))
    ELSE s

\* str::split(","): the pieces between the commas, empty ones included.
RECURSIVE split(_)
split(s) ==
    IF \E i \in 1..Len(s) : s[i] = ","
    THEN LET i == CHOOSE k \in 1..Len(s) :
                      s[k] = "," /\ \A j \in 1..(k - 1) : s[j] # ","
         IN  <<SubSeq(s, 1, i - 1)>> \o split(SubSeq(s, i + 1, Len(s)))
    ELSE <<s>>

\* The digit loop of i64::from_str: checked_mul by 10, then checked_add or
\* checked_sub of the digit.  [ok, val]
RECURSIVE parse_digits(_, _, _)
parse_digits(digits, acc, negative) ==
    IF Len(digits) = 0 THEN [ok |-> TRUE, val |-> acc]
    ELSE IF ~IsDigit(Head(digits)) THEN [ok |-> FALSE, val |-> 0]
    ELSE LET d == to_digit(Head(digits))
             n == IF negative THEN acc * 10 - d ELSE acc * 10 + d
         IN  IF n > I64Max \/ n < I64Min THEN [ok |-> FALSE, val |-> 0]
             ELSE parse_digits(Tail(digits), n, negative)

parse_i64_empty_zero(token) ==
    IF token \in {<<"+">>, <<"-">>} THEN [ok |-> FALSE, val |-> 0]
    ELSE IF Len(token) > 0 /\ Head(token) \in {"+", "-"}
    THEN parse_digits(Tail(token), 0, Head(token) = "-")
    ELSE parse_digits(token, 0, FALSE)

parse_i64_unsigned(token) ==
    IF token \in {<<>>, <<"+">>, <<"-">>} THEN [ok |-> FALSE, val |-> 0]
    ELSE IF Head(token) \in {"+", "-"} THEN parse_digits(Tail(token), 0, FALSE)
    ELSE parse_digits(token, 0, FALSE)

\* str::parse::<i64>: an optional sign and at least one digit, within i64.
parse_i64(token) ==
    IF token \in {<<>>, <<"+">>, <<"-">>} THEN [ok |-> FALSE, val |-> 0]
    ELSE IF Head(token) = "+" THEN parse_digits(Tail(token), 0, FALSE)
    ELSE IF Head(token) = "-" THEN parse_digits(Tail(token), 0, TRUE)
    ELSE parse_digits(token, 0, FALSE)

\* from_str: `collect` stops at the first token that fails and returns its
\* ParseError.
from_str(s) ==
    LET tokens == split(trim_end(s))
        values == [k \in 1..Len(tokens) |-> parse_i64(tokens[k])]
        errors == {k \in 1..Len(tokens) : ~values[k].ok}
    IN  IF errors = {}
        THEN [kind |-> "Ok", tape |-> [k \in 1..Len(tokens) |-> values[k].val],
              token |-> <<>>]
        ELSE [kind |-> "ParseError", tape |-> <<>>,
              token |-> tokens[CHOOSE k \in errors : \A j \in errors : k <= j]]

\* The decimal text of an integer: a minus sign if negative, then its digits
\* without leading zeros.
RECURSIVE Decimal(_)
Decimal(n) ==
    IF n < 0 THEN <<"-">> \o Decimal(0 - n)
    ELSE IF n < 10 THEN <<DigitChars[n + 1]>>
    ELSE Decimal(n \div 10) \o <<DigitChars[(n % 10) + 1]>>

\* The canonical text of a tape: its integers in decimal, joined by commas.
RECURSIVE Canonical(_)
Canonical(tape) ==
    IF Len(tape) = 0 THEN <<>>
    ELSE IF Len(tape) = 1 THEN Decimal(tape[1])
    ELSE Decimal(tape[1]) \o <<",">> \o Canonical(Tail(tape))

\* The longest enumerated text.
MaxText == 5

Chars == {"0", "7", "-", "+", ",", "\n", " ", "x"}

\* Every text of the alphabet up to n characters, and the canonical texts
\* of four tapes with the ends of i64 and the two named programs.
Texts(n) ==
    SeqsUpTo(Chars, n)
        \cup {Canonical(t) : t \in {<<I64Min>>, <<I64Max, 0, -1>>, EqualsEight, Quine}}

InitParse ==
    /\ text \in Texts(MaxText)
    /\ pc = "parse"
    /\ code = <<>>
    /\ ios = <<NoIO>>
    /\ run_queue = <<>>
    /\ execs = <<>>
    /\ execution = 0
    /\ result = NoResult
    /\ last = NoStep
    /\ trace = <<>>
    /\ iolog = <<>>
    /\ opword = 0
    /\ decoded = Undecoded
    /\ parsed = NoParse
    /\ patches = <<>>
    /\ args = NoArgs
    /\ OthersIdle

\* `text.parse::<Program>()`: a Program on success, none on a ParseError.
FromStr ==
    /\ pc = "parse"
    /\ parsed' = from_str(text)
    /\ IF parsed'.kind = "Ok"
       THEN /\ code' = parsed'.tape
            /\ pc' = "idle"
            /\ UNCHANGED result
       ELSE /\ pc' = "done"
            /\ result' = [kind |-> "ParseError", code |-> 0, pos |-> 0]
            /\ UNCHANGED code
    /\ UNCHANGED <<ios, run_queue, execs, execution, last, trace, iolog, opword,
                   decoded, text, patches, args>>
    /\ UNCHANGED others

ParseNext ==
    \/ FromStr
    \/ SetAddress

ParseSpec == InitParse /\ [][ParseNext]_vars

(***************************************************************************)
(* Two whole programs: EqualsEight on one input, every input near 8 and at *)
(* the ends of i64, and the Quine.                                         *)
(***************************************************************************)
ExampleInputs ==
    {I64Min, I64Max} \cup ((0 - Pow2(WordBits \div 2))..Pow2(WordBits \div 2))

InitExamples ==
    /\ \/ /\ code = EqualsEight
          /\ \E v \in ExampleInputs : ios = <<StaticIO_new(<<v>>)>>
       \/ /\ code = Quine
          /\ ios \in {<<StaticIO_new(<<>>)>>, <<StaticIO_new(<<8>>)>>}
    /\ opword = 0
    /\ decoded = Undecoded
    /\ Idle

ExampleSpec == InitExamples /\ [][Next]_vars

(***************************************************************************)
(* StaticIO driven by hand: new on a list of inputs, then any sequence of  *)
(* input and output calls.                                                 *)
(***************************************************************************)
MaxQueue == 3
MaxCalls == 5
QueueValues == {1, 2, 3}
OutputValues == {7, 8}

StaticIO_outputs(io) == io.outputs

InitStaticIO ==
    /\ sio_inputs \in SeqsUpTo(QueueValues, MaxQueue)
    /\ sio = StaticIO_new(sio_inputs)
    /\ sio_log = <<>>
    /\ IntcodeIdle
    /\ PermIdle
    /\ TreeIdle
    /\ DroidIdle
    /\ GameIdle
    /\ RobotIdle

SioInput ==
    /\ Len(sio_log) < MaxCalls
    /\ \E r \in {IO_input(sio)} :
         /\ sio' = r.io
         /\ sio_log' = Append(sio_log, [op |-> "input", some |-> r.some, val |-> r.val])
    /\ UNCHANGED <<sio_inputs, intcode_vars, perm_vars, tree_vars, droid_vars, game_vars, robot_vars>>

SioOutput ==
    /\ Len(sio_log) < MaxCalls
    /\ \E value \in OutputValues : \E r \in {IO_output(sio, value)} :
         /\ sio' = r.io
         /\ sio_log' = Append(sio_log, [op |-> "output", some |-> r.some, val |-> value])
    /\ UNCHANGED <<sio_inputs, intcode_vars, perm_vars, tree_vars, droid_vars, game_vars, robot_vars>>

StaticIONext == SioInput \/ SioOutput

StaticIOSpec == InitStaticIO /\ [][StaticIONext]_vars

(***************************************************************************)
(* utils::permute: permutations(values) and the iterator's next.           *)
(***************************************************************************)
MaxValues == 4
MaxEnded == 2

\* (1..=n).product()
RECURSIVE product(_)
product(n) == IF n = 0 THEN 1 ELSE n * product(n - 1)

swap(out, a, b) == [out EXCEPT ![a + 1] = out[b + 1], ![b + 1] = out[a + 1]]

\* A loop that swaps with the choice itself, not with pos + choice.
RECURSIVE get_permutation_loop_absolute(_, _, _, _, _)
get_permutation_loop_absolute(i, size, modulus, out, pos) ==
    IF pos >= size THEN [panic |-> FALSE, out |-> out]
    ELSE LET m == modulus \div (size - pos)
             choice == i \div m
         IN  IF choice >= size
             THEN [panic |-> TRUE, out |-> out]
             ELSE get_permutation_loop_absolute(i % m, size, m, swap(out, pos, choice), pos + 1)

\* The body of the while loop of get_permutation from position pos on; out
\* is 1-based here and holds the 0-based indices.
RECURSIVE get_permutation_loop(_, _, _, _, _)
get_permutation_loop(i, size, modulus, out, pos) ==
    IF pos >= size THEN [panic |-> FALSE, out |-> out]
    ELSE LET m == modulus \div (size - pos)
             choice == i \div m
         IN  IF pos + choice >= size
             THEN [panic |-> TRUE, out |-> out]
             ELSE get_permutation_loop(i % m, size, m, swap(out, pos, pos + choice), pos + 1)

get_permutation(i, size) ==
    get_permutation_loop(i, size, product(size), [k \in 1..size |-> k - 1], 0)

Permutations_new(values) == [values |-> values, ix |-> 0, max_ix |-> product(Len(values))]

\* The values of the model: lists of distinct values, in any order.
Injective(s) == \A a, b \in 1..Len(s) : s[a] = s[b] => a = b

PermValues(n) == {s \in SeqsUpTo(5..(4 + n), n) : Injective(s)}

InitPermutations ==
    /\ \E values \in PermValues(MaxValues) : perm = Permutations_new(values)
    /\ perm_items = <<>>
    /\ perm_ended = 0
    /\ IntcodeIdle
    /\ SioIdle
    /\ TreeIdle
    /\ DroidIdle
    /\ GameIdle
    /\ RobotIdle

\* Permutations::next.  A panic of the indexing leaves the iterator as it is
\* and is recorded as the item <<"panic">>.
PermNext ==
    /\ perm_ended < MaxEnded
    /\ IF perm.ix = perm.max_ix
       THEN /\ perm_ended' = perm_ended + 1
            /\ UNCHANGED <<perm, perm_items>>
       ELSE \E indices \in {get_permutation(perm.ix, Len(perm.values))} :
              /\ perm_items' =
                    Append(perm_items,
                           IF indices.panic THEN <<"panic">>
                           ELSE [k \in 1..Len(indices.out) |-> perm.values[indices.out[k] + 1]])
              /\ perm' = [perm EXCEPT !.ix = IF indices.panic THEN @ ELSE @ + 1]
              /\ perm_ended' = IF indices.panic THEN MaxEnded ELSE perm_ended
    /\ UNCHANGED <<intcode_vars, sio_vars, tree_vars, droid_vars, game_vars, robot_vars>>

PermutationsSpec == InitPermutations /\ [][PermNext]_vars

(***************************************************************************)
(* tree::Tree: ancestors and shortest_path over a parent relation.         *)
(***************************************************************************)
MaxNodes == 4

\* Tree::parent of the implementer: 0 is None.
parent(t, node) == t[node]

RECURSIVE ancestors_from(_, _, _)
ancestors_from(t, node, out) ==
    IF parent(t, node) = 0 THEN out
    ELSE ancestors_from(t, parent(t, node), Append(out, parent(t, node)))

ancestors(t, node) == ancestors_from(t, node, <<node>>)

\* iter().position(|&item| item == x): 0-based, -1 is None.
position(s, x) ==
    IF \E k \in 1..Len(s) : s[k] = x
    THEN (CHOOSE k \in 1..Len(s) : s[k] = x /\ \A j \in 1..(k - 1) : s[j] # x) - 1
    ELSE 0 - 1

\* A take_while that also takes the element it stops at.
take_while_inclusive(s, x) ==
    IF position(s, x) < 0 THEN s ELSE SubSeq(s, 1, position(s, x) + 1)

\* take_while(|&y| y != x)
take_while(s, x) ==
    IF position(s, x) < 0 THEN s ELSE SubSeq(s, 1, position(s, x))

\* skip_while(|&y| y != x)
skip_while(s, x) ==
    IF position(s, x) < 0 THEN <<>> ELSE SubSeq(s, position(s, x) + 1, Len(s))

\* end_to_root.iter().find(|x| candidates.contains(x)): 0 is None.
find(s, candidates) ==
    IF \E k \in 1..Len(s) : s[k] \in candidates
    THEN s[CHOOSE k \in 1..Len(s) :
             s[k] \in candidates /\ \A j \in 1..(k - 1) : s[j] \notin candidates]
    ELSE 0

shortest_path(t, start, end) ==
    LET start_to_root == ancestors(t, start)
        n == position(start_to_root, end)
        end_to_root == ancestors(t, end)
        common_ancestor == find(end_to_root, {start_to_root[k] : k \in 1..Len(start_to_root)})
    IN  IF n >= 0 THEN [panic |-> FALSE, path |-> SubSeq(start_to_root, 1, n + 1)]
        ELSE IF common_ancestor = 0 THEN [panic |-> TRUE, path |-> <<>>]
        ELSE [panic |-> FALSE,
              path |-> take_while(start_to_root, common_ancestor)
                         \o skip_while(Reverse(end_to_root), common_ancestor)]

\* The rooted trees on the nodes 1..n: one root, and every node reaches it.
RECURSIVE Reaches(_, _, _, _)
Reaches(t, node, root, fuel) ==
    \/ node = root
    \/ fuel > 0 /\ t[node] # 0 /\ Reaches(t, t[node], root, fuel - 1)

RootedTrees(n) ==
    {t \in [1..n -> 0..n] :
        \E root \in 1..n :
            /\ t[root] = 0
            /\ \A node \in 1..n : Reaches(t, node, root, n)}

InitTree ==
    /\ \E n \in 1..MaxNodes : tree \in RootedTrees(n)
    /\ path_call = NoPath
    /\ IntcodeIdle
    /\ SioIdle
    /\ PermIdle
    /\ DroidIdle
    /\ GameIdle
    /\ RobotIdle

ShortestPath ==
    /\ \E start \in DOMAIN tree, end \in DOMAIN tree :
         \E r \in {shortest_path(tree, start, end)} :
            path_call' = [called |-> TRUE, start |-> start, end |-> end,
                          panic |-> r.panic, path |-> r.path]
    /\ UNCHANGED <<tree, intcode_vars, sio_vars, perm_vars, droid_vars, game_vars, robot_vars>>

TreeSpec == InitTree /\ [][ShortestPath]_vars

(***************************************************************************)
(* problem15: the Droid, an IO channel that explores a map.  The program   *)
(* asks for a move (input) and reports what happened (output), in turn.    *)
(* The map is whatever the replies say: a location answers the same way    *)
(* every time, and everything outside -MaxCoord..MaxCoord is wall.         *)
(***************************************************************************)
MaxCoord == 1

\* The locations a Droid can learn about: the room and the ring around it.
Coords == ((0 - MaxCoord - 1)..(MaxCoord + 1)) \X ((0 - MaxCoord - 1)..(MaxCoord + 1))

InRoom(c) == Abs(c[1]) <= MaxCoord /\ Abs(c[2]) <= MaxCoord

\* DIRECTIONS, and Coord + Direction.
DIRECTIONS == <<"North", "East", "South", "West">>

coord_add(c, dir) ==
    CASE dir = "North" -> <<c[1], c[2] - 1>>
      [] dir = "West" -> <<c[1] - 1, c[2]>>
      [] dir = "South" -> <<c[1], c[2] + 1>>
      [] dir = "East" -> <<c[1] + 1, c[2]>>

\* `Direction as i64`; 0 stands for the panic of direction_between.
direction_between(here, there) ==
    LET d == <<there[1] - here[1], there[2] - here[2]>>
    IN  CASE d = <<1, 0>> -> 4
          [] d = <<-1, 0>> -> 3
          [] d = <<0, -1>> -> 1
          [] d = <<0, 1>> -> 2
          [] OTHER -> 0

\* Grid::get with Tile::default() for a cell never set.
grid_get(grid, c) == IF c \in DOMAIN grid THEN grid[c] ELSE "Unknown"

\* HashMap::insert
insert(map, k, v) == [x \in DOMAIN map \cup {k} |-> IF x = k THEN v ELSE map[x]]

\* The loop of mark_explored over grid.neighbors(&loc), from direction k on.
RECURSIVE mark_neighbors(_, _, _, _)
mark_neighbors(d, loc, depth, k) ==
    IF k > Len(DIRECTIONS) THEN d
    ELSE LET coord == coord_add(loc, DIRECTIONS[k])
         IN  IF grid_get(d.grid, coord) = "Unknown"
             THEN mark_neighbors(
                      [d EXCEPT !.spanning_tree =
                                    insert(@, coord, [parent |-> loc, depth |-> depth + 1]),
                                !.frontier = Append(@, coord)],
                      loc, depth, k + 1)
             ELSE mark_neighbors(d, loc, depth, k + 1)

mark_explored(d, loc, tile) ==
    IF grid_get(d.grid, loc) # "Unknown" THEN d
    ELSE LET set == [d EXCEPT !.grid = insert(@, loc, tile)]
         IN  IF tile = "Wall" THEN set
             ELSE mark_neighbors(set, loc, set.spanning_tree[loc].depth, 1)

\* Droid::new.  The empty tuple is None where a Coord is optional.
Droid_new ==
    mark_explored(
        [grid |-> <<>>, frontier |-> <<>>,
         spanning_tree |-> [c \in {<<0, 0>>} |-> [parent |-> <<>>, depth |-> 0]],
         plan |-> <<>>, location |-> <<0, 0>>, moving_to |-> <<0, 0>>, oxygen |-> <<>>],
        <<0, 0>>, "Start")

\* The node of the Tree that stands for a Coord: a positive number, as the
\* nodes of shortest_path are, and 0 for None.
node_of(c) ==
    IF c = <<>> THEN 0
    ELSE (c[1] + MaxCoord + 1) * (2 * MaxCoord + 3) + (c[2] + MaxCoord + 1) + 1

coord_of(n) == CHOOSE c \in Coords : node_of(c) = n

\* impl Tree<Coord> for Droid
Droid_parent(d) ==
    [n \in 1..((2 * MaxCoord + 3) * (2 * MaxCoord + 3)) |->
        IF coord_of(n) \in DOMAIN d.spanning_tree
        THEN node_of(d.spanning_tree[coord_of(n)].parent)
        ELSE 0]

path_to(d, goal) ==
    Let(shortest_path(Droid_parent(d), node_of(d.location), node_of(goal)), LAMBDA r :
        [panic |-> r.panic, path |-> [k \in 1..Len(r.path) |-> coord_of(r.path[k])]])

\* MoveResult::from
MoveResult_from(value) ==
    CASE value = 0 -> "HitWall"
      [] value = 1 -> "Moved"
      [] value = 2 -> "FoundOxygen"
      [] OTHER -> "panic"

\* The replies the map can give to a move to loc: what the Droid has seen
\* there before, or, on a first visit, wall outside the room and anything
\* inside it, with one oxygen tank at most.
Replies(d, loc) ==
    CASE grid_get(d.grid, loc) = "Wall" -> {0}
      [] grid_get(d.grid, loc) \in {"Empty", "Start"} -> {1}
      [] grid_get(d.grid, loc) = "Oxygen" -> {2}
      [] OTHER -> IF ~InRoom(loc) THEN {0}
                  ELSE IF d.oxygen = <<>> THEN {0, 1, 2} ELSE {0, 1}

InitDroid ==
    /\ droid = Droid_new
    /\ droid_call = NoDroidCall
    /\ IntcodeIdle
    /\ SioIdle
    /\ PermIdle
    /\ TreeIdle
    /\ GameIdle
    /\ RobotIdle

\* The plan after `if self.plan.len() == 0 { ... }`: [ret, panic, d] with ret
\* TRUE for the early `return None`.
choose_goal(d) ==
    IF Len(d.plan) # 0 THEN [ret |-> FALSE, panic |-> "", popped |-> FALSE, d |-> d]
    ELSE IF Len(d.frontier) = 0 THEN [ret |-> TRUE, panic |-> "", popped |-> FALSE, d |-> d]
    ELSE LET new_goal == Head(d.frontier)
             popped == [d EXCEPT !.frontier = Tail(@)]
             path == path_to(popped, new_goal)
         IN  IF path.panic
             THEN [ret |-> FALSE, panic |-> "expect", popped |-> TRUE, d |-> popped]
             ELSE LET planned == [popped EXCEPT !.plan = Tail(path.path)]
                  IN  [ret |-> FALSE,
                       panic |-> IF Len(planned.plan) > 0 THEN "" ELSE "assert",
                       popped |-> TRUE, d |-> planned]

\* Droid::input.  A panic unwinds with the fields as they were left.
DroidInput ==
    /\ droid_call.op \in {"none", "output"}
    /\ droid_call.panic = ""
    /\ \E g \in {choose_goal(droid)} :
          LET call == [NoDroidCall EXCEPT !.op = "input", !.popped = g.popped,
                                          !.goal = IF g.popped THEN Head(droid.frontier) ELSE @,
                                          !.from = droid.location]
          IN  IF g.ret \/ g.panic # ""
              THEN /\ droid' = g.d
                   /\ droid_call' = [call EXCEPT !.panic = g.panic]
              ELSE LET next_location == Head(g.d.plan)
                       dir == direction_between(g.d.location, next_location)
                   IN  /\ droid' = [g.d EXCEPT !.plan = Tail(@), !.moving_to = next_location]
                       /\ droid_call' =
                             IF dir = 0 THEN [call EXCEPT !.panic = "direction"]
                             ELSE [call EXCEPT !.some = TRUE, !.val = dir]
    /\ UNCHANGED <<intcode_vars, sio_vars, perm_vars, tree_vars, game_vars, robot_vars>>

\* Droid::output on the reply of the map to the move just requested.
DroidOutput ==
    /\ droid_call.op = "input"
    /\ droid_call.some
    /\ \E value \in Replies(droid, droid.moving_to) :
          /\ droid' =
                CASE MoveResult_from(value) = "HitWall" ->
                        mark_explored(droid, droid.moving_to, "Wall")
                  [] MoveResult_from(value) = "Moved" ->
                        [mark_explored(droid, droid.moving_to, "Empty")
                            EXCEPT !.location = droid.moving_to]
                  [] MoveResult_from(value) = "FoundOxygen" ->
                        [mark_explored(droid, droid.moving_to, "Oxygen")
                            EXCEPT !.location = droid.moving_to,
                                   !.oxygen = droid.moving_to]
          /\ droid_call' = [NoDroidCall EXCEPT !.op = "output", !.some = TRUE, !.val = value]
    /\ UNCHANGED <<intcode_vars, sio_vars, perm_vars, tree_vars, game_vars, robot_vars>>

DroidNext == DroidInput \/ DroidOutput

DroidSpec == InitDroid /\ [][DroidNext]_vars

(***************************************************************************)
(* problem13: the Game, an IO channel that decodes the outputs as triples  *)
(* and plays the paddle.  IOState is the tuple of the values held: <<>>,   *)
(* <<a>> or <<a, b>>.                                                      *)
(***************************************************************************)
MaxOutputs == 6
GameValues == {-1, 0, 3, 4, 5}

\* impl TryFrom<i64> for Tile
Tile_try_from(value) ==
    CASE value = 0 -> Some("Empty")
      [] value = 1 -> Some("Wall")
      [] value = 2 -> Some("Block")
      [] value = 3 -> Some("Paddle")
      [] value = 4 -> Some("Ball")
      [] OTHER -> None

\* usize::try_from(i64)
usize_try_from(value) == IF value >= 0 /\ value <= I64Max THEN Some(value) ELSE None

\* A decoder that takes every triple starting with -1 for the score.
is_score_any(first, second) == first = 0 - 1

\* The pattern IOState::Two(-1, 0)
is_score(first, second) == first = 0 - 1 /\ second = 0

\* Game::output: [some, g]; some = FALSE is the None of a `?`.
Game_output(g, value) ==
    CASE Len(g.state) = 0 -> [some |-> TRUE, g |-> [g EXCEPT !.state = <<value>>]]
      [] Len(g.state) = 1 -> [some |-> TRUE, g |-> [g EXCEPT !.state = <<g.state[1], value>>]]
      [] OTHER ->
            IF is_score(g.state[1], g.state[2])
            THEN [some |-> TRUE, g |-> [g EXCEPT !.score = Some(value), !.state = <<>>]]
            ELSE LET tile == Tile_try_from(value)
                     x == usize_try_from(g.state[1])
                     y == usize_try_from(g.state[2])
                 IN  IF ~tile.some \/ ~x.some \/ ~y.some THEN [some |-> FALSE, g |-> g]
                     ELSE LET coord == <<x.val, y.val>>
                          IN  [some |-> TRUE,
                               g |-> [g EXCEPT
                                        !.screen = insert(@, coord, tile.val),
                                        !.ball = IF tile.val = "Ball" THEN Some(coord) ELSE @,
                                        !.paddle = IF tile.val = "Paddle" THEN Some(coord) ELSE @,
                                        !.state = <<>>]]

\* Game::input: the joystick towards the ball, None before both are known.
Game_input(g) ==
    IF g.ball.some /\ g.paddle.some
    THEN Some(CASE g.ball.val[1] < g.paddle.val[1] -> 0 - 1
                [] g.ball.val[1] = g.paddle.val[1] -> 0
                [] OTHER -> 1)
    ELSE None

InitGame ==
    /\ GameIdle
    /\ IntcodeIdle
    /\ SioIdle
    /\ PermIdle
    /\ TreeIdle
    /\ DroidIdle
    /\ RobotIdle

GameOutput ==
    /\ game_accepted < MaxOutputs
    /\ \E value \in GameValues : \E r \in {Game_output(game, value)} :
          /\ game' = r.g
          /\ game_call' = [op |-> "output", value |-> value, some |-> r.some, ret |-> 0,
                            pre |-> game]
          /\ game_accepted' = IF r.some THEN game_accepted + 1 ELSE game_accepted
    /\ UNCHANGED <<sio_vars, perm_vars, tree_vars, droid_vars, intcode_vars, robot_vars>>

GameInput ==
    /\ game_call.op = "output"
    /\ game_call.some
    /\ game_call' = [op |-> "input", value |-> 0, some |-> Game_input(game).some,
                      ret |-> Game_input(game).val, pre |-> game]
    /\ UNCHANGED <<game, game_accepted, sio_vars, perm_vars, tree_vars, droid_vars,
                   intcode_vars, robot_vars>>

GameNext == GameOutput \/ GameInput

GameSpec == InitGame /\ [][GameNext]_vars

(***************************************************************************)
(* problem11: the RobotIO channel, which paints and drives a Robot.        *)
(***************************************************************************)
MaxRobotCalls == 6
RobotValues == {0, 1, 2}

\* impl From<i64> for Color; "panic" is the panic of the last arm.
Color_from(i) == CASE i = 0 -> "Black" [] i = 1 -> "White" [] OTHER -> "panic"

\* impl Into<i64> for Color
Color_into(color) == IF color = "Black" THEN 0 ELSE 1

\* A conversion with the two turns exchanged.
Turn_from_swapped(i) == CASE i = 0 -> "CW" [] i = 1 -> "CCW" [] OTHER -> "panic"

\* impl From<i64> for Turn
Turn_from(i) == CASE i = 0 -> "CCW" [] i = 1 -> "CW" [] OTHER -> "panic"

current_color(robot) ==
    IF robot.position \in DOMAIN robot.panels THEN robot.panels[robot.position] ELSE "Black"

paint(robot, color) == [robot EXCEPT !.panels = insert(@, robot.position, color)]

change_direction(robot, turn) ==
    [robot EXCEPT !.direction =
        CASE @ = "Up" /\ turn = "CW" -> "Right"
          [] @ = "Right" /\ turn = "CW" -> "Down"
          [] @ = "Down" /\ turn = "CW" -> "Left"
          [] @ = "Left" /\ turn = "CW" -> "Up"
          [] @ = "Up" /\ turn = "CCW" -> "Left"
          [] @ = "Right" /\ turn = "CCW" -> "Up"
          [] @ = "Down" /\ turn = "CCW" -> "Right"
          [] @ = "Left" /\ turn = "CCW" -> "Down"]

move_forward(robot) ==
    LET x == robot.position[1]
        y == robot.position[2]
    IN  [robot EXCEPT !.position =
            CASE robot.direction = "Up" -> <<x, y + 1>>
              [] robot.direction = "Right" -> <<x + 1, y>>
              [] robot.direction = "Down" -> <<x, y - 1>>
              [] robot.direction = "Left" -> <<x - 1, y>>]

\* RobotIO::input
RobotIO_input(io) == Some(Color_into(current_color(io.robot)))

\* RobotIO::output: [panic, io].  A panic of a conversion comes before any
\* field is written.
RobotIO_output(io, value) ==
    IF io.state = "ExpectingColor"
    THEN IF Color_from(value) = "panic" THEN [panic |-> TRUE, io |-> io]
         ELSE [panic |-> FALSE,
               io |-> [robot |-> paint(io.robot, Color_from(value)),
                       state |-> "ExpectingDirection"]]
    ELSE IF Turn_from(value) = "panic" THEN [panic |-> TRUE, io |-> io]
         ELSE [panic |-> FALSE,
               io |-> [robot |-> move_forward(change_direction(io.robot, Turn_from(value))),
                       state |-> "ExpectingColor"]]

InitRobot ==
    /\ start_color \in {"Black", "White"}
    /\ robot_io = RobotIO_new(Robot_new(start_color))
    /\ robot_log = <<>>
    /\ IntcodeIdle
    /\ SioIdle
    /\ PermIdle
    /\ TreeIdle
    /\ DroidIdle
    /\ GameIdle

\* The channel is in use: fewer than MaxRobotCalls calls, none has panicked.
RobotRuns ==
    /\ Len(robot_log) < MaxRobotCalls
    /\ \A k \in 1..Len(robot_log) : ~robot_log[k].panic

RobotInput ==
    /\ RobotRuns
    /\ robot_log' = Append(robot_log,
                           [op |-> "input", value |-> 0, panic |-> FALSE,
                            ret |-> RobotIO_input(robot_io),
                            pre |-> robot_io.robot, post |-> robot_io.robot])
    /\ UNCHANGED <<robot_io, start_color, sio_vars, perm_vars, tree_vars, droid_vars,
                   game_vars, intcode_vars>>

RobotOutput ==
    /\ RobotRuns
    /\ \E value \in RobotValues : \E r \in {RobotIO_output(robot_io, value)} :
          /\ robot_io' = r.io
          /\ robot_log' = Append(robot_log,
                                 [op |-> "output", value |-> value, panic |-> r.panic,
                                  ret |-> IF r.panic THEN None ELSE Some(0),
                                  pre |-> robot_io.robot, post |-> r.io.robot])
    /\ UNCHANGED <<start_color, sio_vars, perm_vars, tree_vars, droid_vars, game_vars,
                   intcode_vars>>

RobotNext == RobotInput \/ RobotOutput

RobotSpec == InitRobot /\ [][RobotNext]_vars

\* The loops of run_to_completion and run_concurrently never pause: a call
\* that can take a step takes it.
FairSpec == Spec /\ WF_vars(Next)

(***************************************************************************)
(* Properties of run_concurrently.                                         *)
(***************************************************************************)
Concurrent == last.api = "run_concurrently"

InQueue(q, id) == \E k \in 1..Len(q) : q[k] = id

\* The accepted outputs of the IO log, as <<channel, value>>.
RECURSIVE OutputEvents(_)
OutputEvents(log) ==
    IF Len(log) = 0 THEN <<>>
    ELSE LET c == log[Len(log)]
             front == OutputEvents(SubSeq(log, 1, Len(log) - 1))
         IN  IF c.op = "output" /\ c.some THEN Append(front, <<c.ch, c.val>>) ELSE front

\* Two Executions A and B that each emitted three values and halted.
TwoEmitters ==
    /\ Concurrent
    /\ code = Emit3
    /\ Len(ios) = 2
    /\ result.kind = "Ok"

\* C1: outputs are produced round-robin, one per turn: between two
\* consecutive outputs of one Execution, every Execution that was waiting in
\* the run queue at the first of them has been stepped; and two Executions
\* emitting A1,A2,A3 and B1,B2,B3 produce the global order A1,B1,A2,B2,A3,B3.
C1_RoundRobin ==
    /\ \A i \in 1..Len(trace), j \in 1..Len(trace) :
         ( /\ i < j
           /\ trace[i].exec = trace[j].exec
           /\ trace[i].kind = "DidOutput"
           /\ trace[j].kind = "DidOutput" )
         => \A w \in 1..Len(trace[i].queue) :
              \E k \in (i + 1)..(j - 1) : trace[k].exec = trace[i].queue[w]
    /\ TwoEmitters =>
         LET A == ios[1].outputs
             B == ios[2].outputs
         IN  /\ Len(A) = 3 /\ Len(B) = 3
             /\ OutputEvents(iolog) =
                  << <<1, A[1]>>, <<2, B[1]>>, <<1, A[2]>>, <<2, B[2]>>,
                     <<1, A[3]>>, <<2, B[3]>> >>

C1_Witness ==
    /\ TwoEmitters
    /\ OutputEvents(iolog) =
         << <<1, 1>>, <<2, 0>>, <<1, 2>>, <<2, 1>>, <<1, 3>>, <<2, 2>> >>

\* C2: run_concurrently is fail-fast: a step that returns an error is the
\* last step of the run, no IO call follows it, the run is over and its
\* result is that error; a finished run does nothing more.
C2_FailFast ==
    /\ \A i \in 1..Len(trace) :
         (Concurrent /\ IsErr(trace[i].kind)) =>
            /\ i = Len(trace)
            /\ Len(iolog) = trace[i].ncalls
            /\ pc = "done"
            /\ result = [kind |-> trace[i].kind, code |-> last.code, pos |-> last.pos]
    /\ pc = "done" => ~ENABLED Next

\* An error in one Execution while another, which has already produced
\* output, still waits in the run queue.
C2_Witness ==
    /\ Concurrent
    /\ IsErr(result.kind)
    /\ Len(run_queue) > 0
    /\ \E i \in 1..Len(trace) : trace[i].kind = "DidOutput" /\ trace[i].exec # last.exec

Halts(id) == \E i \in 1..Len(trace) : trace[i].exec = id /\ trace[i].kind = "Halted"

Count(q, id) == Cardinality({k \in 1..Len(q) : q[k] = id})

\* C3: run_concurrently returns success only with an empty run queue and
\* every Execution halted; a halted Execution is dropped: it is not in the
\* queue and is never stepped again; an Execution that did output is pushed
\* to the back of the queue, once.
C3_HaltDropsOutputRequeues ==
    Concurrent =>
      /\ result.kind = "Ok" =>
           /\ run_queue = <<>>
           /\ execution = 0
           /\ \A id \in DOMAIN execs : Halts(id)
      /\ \A i \in 1..Len(trace) :
           trace[i].kind = "Halted" =>
              /\ ~InQueue(run_queue, trace[i].exec)
              /\ execution # trace[i].exec
              /\ \A j \in (i + 1)..Len(trace) : trace[j].exec # trace[i].exec
      /\ \A id \in DOMAIN execs : Count(run_queue, id) <= 1
      /\ (last.kind = "DidOutput" /\ execution = 0) =>
           /\ pc = "pop"
           /\ run_queue = Append(trace[Len(trace)].queue, last.exec)

\* A successful run of three Executions that halted at different times.
C3_Witness ==
    /\ Concurrent
    /\ result.kind = "Ok"
    /\ Len(ios) = 3
    /\ \E i \in 1..Len(trace) :
         /\ trace[i].kind = "Halted"
         /\ \E j \in (i + 1)..Len(trace) : trace[j].kind = "DidOutput"

\* Every Execution of the batch halts when run alone on its channel, within
\* the steps the model allows it, whichever way the build treats overflow.
AllHaltAlone ==
    \A i \in DOMAIN ios : \A checked \in BOOLEAN :
        run_to_completion(Execution_new(code), ios[i], checked, PerExecSteps).kind
            = "Halted"

Started == pc = "pop" /\ Len(trace) = 0

Succeeded ==
    /\ pc = "done"
    /\ result.kind = "Ok"
    /\ \A id \in DOMAIN ios : id \in DOMAIN execs /\ Halts(id)

\* C4: if every Execution of the batch halts after finitely many steps and
\* no channel refuses a call, run_concurrently eventually returns success
\* with all the Executions run to their Halt.
C4_AllRunToCompletion == (Started /\ AllHaltAlone) ~> Succeeded

C4_Witness ==
    /\ Concurrent
    /\ Succeeded
    /\ Len(ios) = 3
    /\ \A id \in DOMAIN ios : Len(ios[id].outputs) > 0

WordAt(e) == e.state[e.pos + 1]

\* The latest step fetched a word that decodes to `tag`.
StepOn(tag) ==
    /\ last.exec # 0
    /\ last.pre.pos < Len(last.pre.state)
    /\ from_i64(WordAt(last.pre)).tag = tag

\* C5: the Execution being stepped changes only after a step that returned
\* DidOutput or Halted; after a step that returned Running the same
\* Execution is stepped next; an Input step never yields: it returns Running
\* and keeps the turn, or, with no input, ends the whole run with InputError.
C5_SwitchOnlyAfterOutput ==
    Concurrent =>
      /\ \A i \in 1..(Len(trace) - 1) :
           /\ trace[i].exec # trace[i + 1].exec
                => trace[i].kind \in {"DidOutput", "Halted"}
           /\ trace[i].kind = "Running" => trace[i + 1].exec = trace[i].exec
      /\ last.kind = "Running" => pc = "step" /\ execution = last.exec
      /\ StepOn("Input") =>
           /\ last.kind \notin {"DidOutput", "Halted"}
           /\ pc # "pop"
           /\ pc = "step" => execution = last.exec
           /\ ~last.calls[1].some =>
                /\ last.kind = "InputError"
                /\ pc = "done"
                /\ result.kind = "InputError"

\* An Execution that read its input and went on while another waited, and
\* one that found no input while another waited.
C5_Witness ==
    /\ Concurrent
    /\ result.kind = "InputError"
    /\ Len(run_queue) > 0
    /\ StepOn("Input")
    /\ \E i \in 1..(Len(trace) - 1) :
         /\ trace[i].kind = "Running"
         /\ trace[i].queue # <<>>
         /\ trace[i + 1].exec = trace[i].exec

(***************************************************************************)
(* Properties of Execution::step.                                          *)
(***************************************************************************)
\* The address a Position or Relative parameter word names.
ParamAddress(e, k, mode) ==
    IF mode = "Relative" THEN e.state[e.pos + k + 1] + e.relative_base
    ELSE e.state[e.pos + k + 1]

\* Cell a of the tape (cells past the end read 0).
Cell(state, a) == IF a >= 0 /\ a < Len(state) THEN state[a + 1] ELSE 0

\* C6: an Input step requests exactly one value; given v it writes v to the
\* destination address, advances the instruction pointer by 2 and returns
\* Running; given nothing it fails with InputError and leaves the tape, the
\* instruction pointer and the relative base unchanged.
C6_InputStep ==
    StepOn("Input") =>
       /\ Len(last.calls) = 1
       /\ last.calls[1].op = "input"
       /\ last.calls[1].some =>
            /\ last.kind = "Running"
            /\ last.post.pos = last.pre.pos + 2
            /\ last.post.relative_base = last.pre.relative_base
            /\ last.pre.pos + 1 < Len(last.pre.state)
            /\ LET a == ParamAddress(last.pre, 1, from_i64(WordAt(last.pre)).modes[1])
               IN  a >= 0 /\ a < Len(last.post.state)
                   /\ last.post.state[a + 1] = last.calls[1].val
       /\ ~last.calls[1].some =>
            /\ last.kind = "InputError"
            /\ last.post = last.pre

\* C7: an Output step hands the resolved value of its source operand to the
\* channel, once, advances the instruction pointer by 2 and returns
\* DidOutput, which no other instruction returns; if the channel refuses, the
\* step fails with OutputError and the instruction pointer stays.
C7_OutputStep ==
    /\ StepOn("Output") =>
         /\ Len(last.calls) = 1
         /\ last.calls[1].op = "output"
         /\ last.pre.pos + 1 < Len(last.pre.state)
         /\ LET mode == from_i64(WordAt(last.pre)).modes[1]
            IN  last.calls[1].val =
                  IF mode = "Immediate" THEN last.pre.state[last.pre.pos + 2]
                  ELSE Cell(last.pre.state, ParamAddress(last.pre, 1, mode))
         /\ last.calls[1].some =>
              last.kind = "DidOutput" /\ last.post.pos = last.pre.pos + 2
         /\ ~last.calls[1].some =>
              last.kind = "OutputError" /\ last.post.pos = last.pre.pos
    /\ last.kind = "DidOutput" => StepOn("Output")

\* C8: a step on a Halt word returns Halted and changes nothing, and makes
\* no IO call; so a step of an Execution that stands on a Halt word returns
\* Halted again, with the same state.
C8_HaltIsTerminal ==
    /\ ( /\ last.exec # 0
         /\ last.pre.pos < Len(last.pre.state)
         /\ RustRem(WordAt(last.pre), 100) = 99 ) =>
           /\ last.kind = "Halted"
           /\ last.post = last.pre
           /\ last.ioPost = last.ioPre
           /\ last.calls = <<>>
    /\ last.kind = "Halted" =>
         \A checked \in BOOLEAN :
            step(last.post, last.ioPost, checked)
               = Ret("Halted", last.post, last.ioPost, <<>>)

\* An Execution that halted after it had read and written.
C8_Witness ==
    /\ last.kind = "Halted"
    /\ last.pre.pos > 0
    /\ Len(last.ioPre.outputs) > 0
    /\ Len(last.pre.state) > Len(code)

BadOpResult(w, p) == [kind |-> "BadOp", code |-> w, pos |-> p]

\* C9: a step on a word w at position p that does not decode fails with
\* BadOp{code: w, pos: p}, changes neither the tape, the instruction pointer
\* nor the relative base and makes no IO call; the error ends
\* run_to_completion and run_concurrently, which return it.
C9_BadOp ==
    /\ StepOn("None") =>
         /\ last.kind = "BadOp"
         /\ last.code = WordAt(last.pre)
         /\ last.pos = last.pre.pos
         /\ last.post = last.pre
         /\ last.ioPost = last.ioPre
         /\ last.calls = <<>>
    /\ last.kind = "BadOp" => StepOn("None")
    /\ \A i \in 1..Len(trace) :
         trace[i].kind = "BadOp" =>
            /\ i = Len(trace)
            /\ pc = "done"
            /\ result = BadOpResult(WordAt(last.pre), last.pre.pos)

\* A BadOp in the middle of a run of several Executions, away from position 0.
C9_Witness ==
    /\ Concurrent
    /\ result = BadOpResult(304, 14)
    /\ Len(run_queue) > 0

\* The instruction fetched by the latest step writes through an Immediate
\* operand.
WritesImmediate ==
    /\ last.pre.pos < Len(last.pre.state)
    /\ LET op == from_i64(WordAt(last.pre))
       IN  \/ op.tag \in {"Add", "Mul", "LessThan", "EqualTo"} /\ op.modes[3] = "Immediate"
           \/ op.tag = "Input" /\ op.modes[1] = "Immediate"

\* C10: every failure reaches the caller as a typed result: unless a write
\* operand is in Immediate mode, a step returns a state or an ExecuteError
\* and never aborts, and so do run_to_completion and run_concurrently.
C10_NoAbort ==
    /\ last.kind = "Abort" => WritesImmediate
    /\ result.kind = "Abort" => WritesImmediate

(***************************************************************************)
(* Properties of the tape.                                                 *)
(***************************************************************************)
\* The parameter words of an instruction.
Arity(tag) ==
    CASE tag \in {"Add", "Mul", "LessThan", "EqualTo"} -> 3
      [] tag \in {"JumpIfTrue", "JumpIfFalse"} -> 2
      [] tag \in {"Input", "Output", "AdjustRelativeBase"} -> 1
      [] OTHER -> 0

\* The latest step got as far as the fetch of its first parameter word (an
\* Input step asks its channel first).
FetchesParameter ==
    /\ last.exec # 0
    /\ last.pre.pos < Len(last.pre.state)
    /\ Arity(from_i64(WordAt(last.pre)).tag) >= 1
    /\ StepOn("Input") => last.calls[1].some

\* The cells of `new` that differ from the same cell of `old`, a cell past
\* the end of `old` counting as 0.
ChangedCells(old, new) == {a \in 0..(Len(new) - 1) : new[a + 1] # Cell(old, a)}

\* C11: a tape access at an index at or past the end extends the tape with
\* zeros and then succeeds: the fetch of the instruction word, the fetch of
\* a parameter word, and the dereference of an operand (here the source of
\* an Output) never fail for being past the end; the tape a step leaves is
\* the old one, zero-extended, with at most the written cell changed.
C11_AccessExtends ==
    last.exec # 0 =>
      /\ last.pre.pos >= Len(last.pre.state) =>
           /\ last.kind # "Abort"
           /\ Len(last.post.state) > last.pre.pos
      /\ (FetchesParameter /\ last.pre.pos + 1 >= Len(last.pre.state)) =>
           /\ last.kind # "Abort"
           /\ Len(last.post.state) > last.pre.pos + 1
      /\ ( /\ StepOn("Output")
           /\ last.pre.pos + 1 < Len(last.pre.state)
           /\ from_i64(WordAt(last.pre)).modes[1] = "Position"
           /\ AsUsize(last.pre.state[last.pre.pos + 2]) >= Len(last.pre.state) ) =>
           /\ last.kind # "Abort"
           /\ Len(last.post.state) = AsUsize(last.pre.state[last.pre.pos + 2]) + 1
           /\ last.calls[1].val = 0
      /\ last.kind # "Abort" =>
           /\ Len(last.post.state) >= Len(last.pre.state)
           /\ Cardinality(ChangedCells(last.pre.state, last.post.state)) <= 1

\* The latest step was an Input that was given a value and whose
\* destination parameter word exists and is not in Immediate mode.
InputWrites ==
    /\ StepOn("Input")
    /\ last.calls[1].some
    /\ last.pre.pos + 1 < Len(last.pre.state)
    /\ from_i64(WordAt(last.pre)).modes[1] # "Immediate"

\* The address an Input writes to, as the usize the cast gives.
InputDest ==
    AsUsize(WrapI64(ParamAddress(last.pre, 1, from_i64(WordAt(last.pre)).modes[1])))

\* C12: a write through a Position or Relative operand to an address N at or
\* past the end of the tape does not fail: afterwards the length is N + 1,
\* cell N holds the value, the cells from the old length to N - 1 are 0 and
\* the cells below the old length are unchanged; and no step makes the tape
\* shorter.
C12_WriteGrows ==
    /\ (InputWrites /\ InputDest >= Len(last.pre.state)) =>
         /\ last.kind = "Running"
         /\ Len(last.post.state) = InputDest + 1
         /\ last.post.state[InputDest + 1] = last.calls[1].val
         /\ \A a \in Len(last.pre.state)..(InputDest - 1) : last.post.state[a + 1] = 0
         /\ \A a \in 0..(Len(last.pre.state) - 1) :
              last.post.state[a + 1] = last.pre.state[a + 1]
    /\ Len(last.post.state) >= Len(last.pre.state)

(***************************************************************************)
(* Properties of the decoder.                                              *)
(***************************************************************************)
Opcodes == {1, 2, 3, 4, 5, 6, 7, 8, 9, 99}

Tags ==
    {"Add", "Mul", "Input", "Output", "JumpIfTrue", "JumpIfFalse", "LessThan",
     "EqualTo", "AdjustRelativeBase", "Exit"}

\* The decimal digit of 10^k in a word, by its magnitude.
Digit(w, k) == (Abs(w) \div k) % 10

\* C13: decoding is total: a word, negative or not, whose value mod 100 is
\* none of the opcodes 1..9 and 99 decodes to None (a negative word has no
\* opcode: its remainder is never positive); every word decodes to None or to
\* an instruction, never to a panic, and decoding touches nothing else.
C13_DecodeTotal ==
    decoded # Undecoded =>
      /\ (opword < 0 \/ (opword % 100) \notin Opcodes) => decoded.op = NoOp
      /\ decoded.op = NoOp \/ decoded.op.tag \in Tags
      /\ pc = "idle" /\ last = NoStep /\ iolog = <<>>

\* The words -1 and i64::MIN were decoded, to None.
C13_Witness == decoded # Undecoded /\ decoded.op = NoOp /\ opword \in {-1, I64Min}

\* C14: a word with a hundreds, thousands or ten-thousands digit outside
\* {0,1,2} decodes to None.
C14_BadModeDigit ==
    ( /\ decoded # Undecoded
      /\ \E k \in {100, 1000, 10000} : Digit(opword, k) \notin {0, 1, 2} )
    => decoded.op = NoOp

ModeOf(d) == CASE d = 0 -> "Position" [] d = 1 -> "Immediate" [] OTHER -> "Relative"

Family(o) ==
    CASE o = 1 -> "Add" [] o = 2 -> "Mul" [] o = 3 -> "Input" [] o = 4 -> "Output"
      [] o = 5 -> "JumpIfTrue" [] o = 6 -> "JumpIfFalse" [] o = 7 -> "LessThan"
      [] o = 8 -> "EqualTo" [] o = 9 -> "AdjustRelativeBase" [] OTHER -> "Exit"

\* C15: opcode + 100*m1 + 1000*m2 + 10000*m3 with the opcode in {1..9, 99}
\* and the digits in {0,1,2} decodes to the family of the opcode, the mode of
\* operand N being mN and the number of modes the arity of the family; and
\* the digit helpers give the decimal digits of a non-negative word.
C15_Encoding ==
    decoded # Undecoded =>
      /\ \A o \in Opcodes, m1 \in 0..2, m2 \in 0..2, m3 \in 0..2 :
           opword = o + 100 * m1 + 1000 * m2 + 10000 * m3 =>
              /\ decoded.op.tag = Family(o)
              /\ Len(decoded.op.modes) = Arity(Family(o))
              /\ decoded.op.modes =
                   SubSeq(<<ModeOf(m1), ModeOf(m2), ModeOf(m3)>>, 1, Arity(Family(o)))
      /\ opword >= 0 =>
           decoded.digits = <<Digit(opword, 100), Digit(opword, 1000), Digit(opword, 10000)>>

\* 21202: a Multiply with a Relative, an Immediate and a Relative operand.
C15_Witness ==
    /\ opword = 21202
    /\ decoded.op = [tag |-> "Mul", modes |-> <<"Relative", "Immediate", "Relative">>]
    /\ decoded.digits = <<2, 1, 2>>

(***************************************************************************)
(* Properties of the arithmetic programs.                                  *)
(***************************************************************************)
\* The program is [1,x,y,d,99] or [2,x,y,d,99].
IsArithProgram == Len(code) = 5 /\ code[1] \in {1, 2} /\ code[5] = 99

Returned_run == pc = "done" /\ last.api = "run"

\* tape[x] + tape[y] or tape[x] * tape[y] of the program as written.
ArithExpected ==
    IF code[1] = 1 THEN Cell(code, code[2]) + Cell(code, code[3])
    ELSE Cell(code, code[2]) * Cell(code, code[3])

ArithDone ==
    /\ result.kind = "Ok"
    /\ Cell(execs[execution].state, code[4]) = ArithExpected

\* x, y and d are addresses of cells that exist or can be allocated, d is
\* not the cell of the Halt, and the result fits an i64.
WellFormedArith ==
    /\ \A k \in 2..4 : code[k] >= 0 /\ code[k] < MaxAlloc
    /\ code[4] # 4
    /\ ArithExpected <= I64Max

\* C16 as stated: for every program [1,x,y,d,99] run_to_completion ends with
\* tape[d] = tape[x] + tape[y], and for every [2,x,y,d,99] with
\* tape[d] = tape[x] * tape[y] (the operands as they were at the start).
C16_EveryProgram == (IsArithProgram /\ Returned_run) => ArithDone

\* C16, amended: the same for the well-formed programs: x, y, d addresses
\* that exist or can be allocated, d not the cell of the Halt, the result
\* fitting an i64; run_to_completion returns after two steps.
C16_WellFormed ==
    (IsArithProgram /\ WellFormedArith /\ last.api # "run_concurrently") =>
       /\ Returned_run => ArithDone
       /\ pc = "rtc" => Len(trace) <= 1

\* 5 * 5 written past the end of [2,3,3,5,99].
C16_Witness ==
    /\ code = <<2, 3, 3, 5, 99>>
    /\ Returned_run
    /\ result.kind = "Ok"
    /\ execs[execution].state = <<2, 3, 3, 5, 99, 25>>

(***************************************************************************)
(* Properties of the instructions.                                         *)
(***************************************************************************)
\* The instruction the latest step fetched.
LastOp == from_i64(WordAt(last.pre))

\* The latest step fetched an instruction of one of the families `tags`.
StepOnAny(tags) ==
    /\ last.exec # 0
    /\ last.pre.pos < Len(last.pre.state)
    /\ LastOp.tag \in tags

\* Parameter word k of the instruction at e (a cell past the end reads 0).
Param(e, k) == Cell(e.state, e.pos + k)

\* The address operand k names in Position or Relative mode.
Address(e, k, mode) ==
    IF mode = "Relative" THEN Param(e, k) + e.relative_base ELSE Param(e, k)

\* The value of operand k of the instruction at e, as the specification
\* resolves it: the parameter word itself, or the cell it names.
Resolved(e, k, mode) ==
    IF mode = "Immediate" THEN Param(e, k) ELSE Cell(e.state, Address(e, k, mode))

\* Operand k names a cell: it is Immediate or its address is not negative.
Names(e, k, mode) == mode = "Immediate" \/ Address(e, k, mode) >= 0

Binops == {"Add", "Mul", "LessThan", "EqualTo"}

BinopValue(tag, a, b) ==
    CASE tag = "Add" -> a + b
      [] tag = "Mul" -> a * b
      [] tag = "LessThan" -> IF a < b THEN 1 ELSE 0
      [] OTHER -> IF a = b THEN 1 ELSE 0

\* C17: an Add, Multiply, LessThan or Equals step (with a destination that
\* is not Immediate) reads both sources as they are before the write, writes
\* f(a,b) to the address of the third operand and to no other cell, advances
\* the instruction pointer by 4, leaves the relative base, makes no IO call
\* and returns Running.
C17_BinopStep ==
    (StepOnAny(Binops) /\ LastOp.modes[3] # "Immediate") =>
       /\ last.kind = "Running"
       /\ last.calls = <<>>
       /\ last.ioPost = last.ioPre
       /\ last.post.pos = last.pre.pos + 4
       /\ last.post.relative_base = last.pre.relative_base
       /\ LET a == Resolved(last.pre, 1, LastOp.modes[1])
              b == Resolved(last.pre, 2, LastOp.modes[2])
              dest == Address(last.pre, 3, LastOp.modes[3])
          IN  /\ dest >= 0
              /\ Cell(last.post.state, dest) = BinopValue(LastOp.tag, a, b)
              /\ ChangedCells(last.pre.state, last.post.state) \subseteq {dest}

Jumps == {"JumpIfTrue", "JumpIfFalse"}

\* C18: a JumpIfTrue step sets the instruction pointer to the value of its
\* second operand when the first is nonzero and otherwise advances by 3, a
\* JumpIfFalse step does so when the first is zero; a jump changes no cell
\* and not the relative base, makes no IO call and returns Running.
C18_JumpStep ==
    StepOnAny(Jumps) =>
       /\ last.kind = "Running"
       /\ last.calls = <<>>
       /\ last.ioPost = last.ioPre
       /\ last.post.relative_base = last.pre.relative_base
       /\ ChangedCells(last.pre.state, last.post.state) = {}
       /\ LET test == Resolved(last.pre, 1, LastOp.modes[1])
          IN  IF (LastOp.tag = "JumpIfTrue") = (test # 0)
              THEN last.post.pos = Resolved(last.pre, 2, LastOp.modes[2])
              ELSE last.post.pos = last.pre.pos + 3

ParameterModes == {"Position", "Immediate", "Relative"}

\* C19: reading an operand with parameter word p yields tape[p] in Position
\* mode, tape[p + relative_base] in Relative mode and p in Immediate mode, a
\* cell past the end reading 0: so for the value an Output step hands to its
\* channel, and so for do_read in any mode on the first parameter word of
\* every Execution state reached.
C19_OperandRead ==
    /\ ( /\ StepOn("Output")
         /\ last.pre.pos + 1 < Len(last.pre.state)
         /\ Names(last.pre, 1, LastOp.modes[1]) ) =>
         /\ Len(last.calls) = 1
         /\ last.calls[1].val = Resolved(last.pre, 1, LastOp.modes[1])
    /\ (last.exec # 0 /\ last.pre.pos + 1 < Len(last.pre.state)) =>
         \A mode \in ParameterModes, checked \in BOOLEAN :
            Names(last.pre, 1, mode) =>
               LET r == do_read(last.pre.state, last.pre.relative_base,
                                last.pre.pos + 1, mode, checked)
               IN  r.ok /\ r.val = Resolved(last.pre, 1, mode)

\* The operand an AdjustRelativeBase step of the trace added, 0 for any
\* other step.
Adjustment(t) ==
    IF /\ t.kind = "Running"
       /\ t.pre.pos < Len(t.pre.state)
       /\ from_i64(WordAt(t.pre)).tag = "AdjustRelativeBase"
    THEN Resolved(t.pre, 1, from_i64(WordAt(t.pre)).modes[1])
    ELSE 0

\* The sum of the operands of the AdjustRelativeBase steps of Execution id.
RECURSIVE AdjustSum(_, _)
AdjustSum(tr, id) ==
    IF Len(tr) = 0 THEN 0
    ELSE AdjustSum(SubSeq(tr, 1, Len(tr) - 1), id)
           + (IF tr[Len(tr)].exec = id THEN Adjustment(tr[Len(tr)]) ELSE 0)

\* C20: the relative base starts at 0 and only AdjustRelativeBase changes
\* it: such a step adds its operand, advances the instruction pointer by 2
\* and returns Running; the relative base of an Execution is always the sum
\* of the operands of the AdjustRelativeBase instructions it has executed;
\* and a Relative write with parameter p goes to address p + relative_base.
C20_RelativeBase ==
    /\ \A id \in DOMAIN execs : execs[id].relative_base = AdjustSum(trace, id)
    /\ (last.exec # 0 /\ ~StepOn("AdjustRelativeBase")) =>
         last.post.relative_base = last.pre.relative_base
    /\ StepOn("AdjustRelativeBase") =>
         /\ last.kind = "Running"
         /\ last.post.relative_base =
              last.pre.relative_base + Resolved(last.pre, 1, LastOp.modes[1])
         /\ last.post.pos = last.pre.pos + 2
    /\ ( /\ StepOn("Input")
         /\ last.calls[1].some
         /\ LastOp.modes[1] = "Relative"
         /\ Address(last.pre, 1, "Relative") >= 0 ) =>
         /\ last.kind = "Running"
         /\ ChangedCells(last.pre.state, last.post.state)
              \subseteq {Param(last.pre, 1) + last.pre.relative_base}
         /\ Cell(last.post.state, Param(last.pre, 1) + last.pre.relative_base)
              = last.calls[1].val

(***************************************************************************)
(* Properties of write operands.                                           *)
(***************************************************************************)
\* C21 as stated: every Add, Multiply, LessThan, Equals or Input instruction
\* whose destination operand is in Immediate mode writes no cell and ends in
\* an abort, never in a state or a typed error.
C21_NeverWriteTarget ==
    WritesImmediate =>
      /\ last.kind = "Abort"
      /\ last.post.state = last.pre.state

\* C21: an Add, Multiply, LessThan or Equals instruction whose destination
\* operand is in Immediate mode, and an Input instruction with such a
\* destination that got a value from its channel, writes no cell and ends
\* in an abort that also ends the call; an Input instruction with such a
\* destination that got no value returns InputError, since the channel is
\* asked before the destination is resolved.
C21_ImmediateWrite ==
    WritesImmediate =>
      /\ last.post.state = last.pre.state
      /\ IF StepOn("Input") /\ ~last.calls[1].some
         THEN last.kind = "InputError"
         ELSE /\ last.kind = "Abort"
              /\ last.post = last.pre
              /\ pc = "done"
              /\ result.kind = "Abort"

\* An addition of two readable operands with an Immediate destination.
C21_Witness ==
    /\ StepOn("Add")
    /\ WritesImmediate
    /\ LastOp.modes[1] = "Position"
    /\ LastOp.modes[2] = "Relative"
    /\ Names(last.pre, 1, "Position")
    /\ Names(last.pre, 2, "Relative")
    /\ last.kind = "Abort"

(***************************************************************************)
(* Properties of whole programs.                                           *)
(***************************************************************************)
\* The value the first IO call of the run supplied.
FirstInput == iolog[1].val

\* C22: the program 3,9,8,9,10,9,4,9,99,-1,8 run (by run or by
\* run_concurrently) on a channel holding the single input v returns
\* success after a Halt, having consumed v and produced exactly one output:
\* 1 if v = 8 and 0 otherwise.
C22_EqualsEight ==
    (code = EqualsEight /\ pc = "done") =>
      /\ result.kind = "Ok"
      /\ last.kind = "Halted"
      /\ iolog[1].op = "input" /\ iolog[1].some
      /\ ios[1].inputs = <<>>
      /\ ios[1].outputs = <<IF FirstInput = 8 THEN 1 ELSE 0>>
      /\ OutputEvents(iolog) = <<<<1, IF FirstInput = 8 THEN 1 ELSE 0>>>>

\* The run on the input 8 has returned with the output 1.
C22_Witness ==
    /\ code = EqualsEight
    /\ pc = "done"
    /\ last.api = "run"
    /\ FirstInput = 8
    /\ ios[1].outputs = <<1>>

\* C23: the quine 109,1,204,-1,1001,100,1,100,1008,100,16,101,1006,101,0,99
\* run to completion returns success with the outputs delivered to its
\* channel equal to its own tape, cell for cell and in order; its initial
\* cells are unchanged and it holds cells past its initial end.
C23_Quine ==
    (code = Quine /\ pc = "done") =>
      /\ result.kind = "Ok"
      /\ last.kind = "Halted"
      /\ ios[1].outputs = Quine
      /\ OutputEvents(iolog) = [k \in 1..Len(Quine) |-> <<1, Quine[k]>>]
      /\ SubSeq(execs[1].state, 1, Len(Quine)) = Quine
      /\ Len(execs[1].state) > Len(Quine)

\* run_to_completion on the Quine has returned: all its cells are out, read
\* in Relative mode, and cells 100 and 101 were written past the end.
C23_Witness ==
    /\ code = Quine
    /\ pc = "done"
    /\ last.api = "run"
    /\ Len(trace) = QuineSteps
    /\ ios[1].outputs = Quine
    /\ execs[1].relative_base = Len(Quine)
    /\ Cell(execs[1].state, 100) = Len(Quine)
    /\ Cell(execs[1].state, 101) = 1

(***************************************************************************)
(* Properties of Execution::run_to_completion.                             *)
(***************************************************************************)
\* run_to_completion is running or has ended.
InRun == pc = "rtc" \/ last.api = "run"

Continues == {"Running", "DidOutput"}

\* C24: run_to_completion calls step again after every step that returned
\* Running or DidOutput and after no other; it has not returned while the
\* steps return those; after the step that returned Halted it returns Ok
\* with the tape that step left; after the first step that returned an
\* error it returns that error; so a program whose steps never return
\* Halted or an error keeps it stepping for as long as the model lets it.
C24_RunToCompletion ==
    InRun =>
      /\ \A i \in 1..(Len(trace) - 1) : trace[i].kind \in Continues
      /\ pc = "rtc" <=> (trace = <<>> \/ last.kind \in Continues)
      /\ pc = "rtc" =>
           /\ result = NoResult
           /\ Len(trace) < StepLimit => ENABLED RtcStep
      /\ last.kind = "Halted" =>
           /\ pc = "done"
           /\ result.kind = "Ok"
           /\ execs[execution].state = last.post.state
      /\ IsErr(last.kind) =>
           /\ pc = "done"
           /\ result = [kind |-> last.kind, code |-> last.code, pos |-> last.pos]
      /\ result.kind \notin {"Pending", "Abort"} =>
           last.kind = "Halted" \/ IsErr(last.kind)

\* The loop that outputs and jumps back is still being stepped at the cap,
\* every second step of it a DidOutput.
C24_Witness ==
    /\ code = <<104, 1, 1105, 1, 0>>
    /\ pc = "rtc"
    /\ Len(trace) = StepLimit
    /\ result = NoResult
    /\ \A i \in 1..Len(trace) : trace[i].kind = (IF i % 2 = 1 THEN "DidOutput" ELSE "Running")

(***************************************************************************)
(* Properties of the Program API.                                          *)
(***************************************************************************)
\* The tape a new Execution starts from: the template, with noun and verb
\* in cells 1 and 2 under run_problem2.
StartTape(c, a) == IF a.called THEN [c EXCEPT ![2] = a.noun, ![3] = a.verb] ELSE c

\* The step creates the Executions of a call.
Spawns == execs = <<>> /\ execs' # <<>>

\* C25: no step of run, run_concurrently or run_problem2 changes the
\* Program's tape, whether the call succeeds or fails (only set_address
\* does); every Execution a call creates starts from a copy of that tape
\* (with noun and verb in place under run_problem2); and a step of one
\* Execution leaves the tape, instruction pointer and relative base of
\* every other Execution as they were.
C25_NoSharing ==
    [][ /\ patches' = patches => code' = code
        /\ Spawns =>
             \A j \in DOMAIN execs' : execs'[j] = Execution_new(StartTape(code, args'))
        /\ Len(trace') > Len(trace) =>
             /\ DOMAIN execs' = DOMAIN execs
             /\ \A j \in DOMAIN execs : j # last'.exec => execs'[j] = execs[j]
      ]_vars

\* Two Executions of one run_concurrently ended with tapes that differ from
\* each other and from the template.
C25_Witness ==
    /\ pc = "done"
    /\ last.api = "run_concurrently"
    /\ result.kind = "Ok"
    /\ Len(execs) = 2
    /\ execs[1].state # execs[2].state
    /\ execs[1].state # code
    /\ execs[2].state # code
    /\ patches = <<>>

(***************************************************************************)
(* Properties of program text.                                             *)
(***************************************************************************)
\* The text up to its last character that is not whitespace.
Body(s) ==
    LET solid == {i \in 1..Len(s) : s[i] \notin Whitespace}
    IN  IF solid = {} THEN <<>>
        ELSE SubSeq(s, 1, CHOOSE i \in solid : \A j \in solid : j <= i)

Commas(s) == {i \in 1..Len(s) : s[i] = ","}

TokenCount(s) == Cardinality(Commas(s)) + 1

\* The position of comma k, the start before the first and the end after
\* the last.
NthComma(s, k) ==
    IF k = 0 THEN 0
    ELSE IF k > Cardinality(Commas(s)) THEN Len(s) + 1
    ELSE CHOOSE i \in Commas(s) : Cardinality({j \in Commas(s) : j <= i}) = k

\* Token k: what stands between comma k - 1 and comma k.
Token(s, k) == SubSeq(s, NthComma(s, k - 1) + 1, NthComma(s, k) - 1)

Unsigned(token) ==
    IF Len(token) > 0 /\ token[1] \in {"+", "-"} THEN Tail(token) ELSE token

RECURSIVE Magnitude(_)
Magnitude(digits) ==
    IF Len(digits) = 0 THEN 0
    ELSE 10 * Magnitude(SubSeq(digits, 1, Len(digits) - 1)) + to_digit(digits[Len(digits)])

\* The integer a signed decimal token denotes.
Value(token) ==
    IF token[1] = "-" THEN 0 - Magnitude(Unsigned(token)) ELSE Magnitude(Unsigned(token))

\* A signed decimal integer of the width of a cell.
IsInteger(token) ==
    /\ Len(Unsigned(token)) > 0
    /\ \A i \in 1..Len(Unsigned(token)) : IsDigit(Unsigned(token)[i])
    /\ Value(token) \in I64Min..I64Max

\* C26: parsing a text whose tokens (what stands between the commas, the
\* trailing whitespace set aside) are all signed decimal integers yields
\* the Program whose tape is those integers in order; if a token is not an
\* integer (an empty one included) parsing fails with a ParseError that
\* carries exactly the first such token, and there is no Program.
C26_Parse ==
    parsed.kind # "None" =>
      LET body == Body(text)
          bad == {k \in 1..TokenCount(body) : ~IsInteger(Token(body, k))}
      IN  IF bad = {}
          THEN /\ parsed = [kind |-> "Ok",
                            tape |-> [k \in 1..TokenCount(body) |-> Value(Token(body, k))],
                            token |-> <<>>]
               /\ patches = <<>> => code = parsed.tape
               /\ result.kind # "ParseError"
          ELSE /\ parsed.kind = "ParseError"
               /\ parsed.token = Token(body, CHOOSE k \in bad : \A j \in bad : k <= j)
               /\ pc = "done"
               /\ result.kind = "ParseError"
               /\ code = <<>>

\* A doubled comma before a trailing newline: the error carries the empty
\* token.
C26_Witness ==
    /\ text = <<"7", ",", ",", "x", "\n">>
    /\ parsed = [kind |-> "ParseError", tape |-> <<>>, token |-> <<>>]
    /\ pc = "done"

\* C27: for a Program parsed from text, patched or not and not yet run,
\* the canonical text of its tape parses to exactly that tape, integer for
\* integer and in order; and when the text parsed was canonical and no
\* patch was made, the canonical text of the tape is the text parsed.
C27_RoundTrip ==
    parsed.kind = "Ok" =>
      /\ from_str(Canonical(code)) = [kind |-> "Ok", tape |-> code, token |-> <<>>]
      /\ (text = Canonical(parsed.tape) /\ patches = <<>>) => Canonical(code) = text

\* The Quine parsed from its canonical text and patched at one address.
C27_Witness ==
    /\ text = Canonical(Quine)
    /\ parsed.kind = "Ok"
    /\ patches # <<>>
    /\ code # Quine
    /\ Len(code) = Len(Quine)
    /\ from_str(Canonical(code)).tape = code

(***************************************************************************)
(* Properties of set_address (the specification's patch).                  *)
(***************************************************************************)
\* The step is a call of set_address.
Patches == patches' # patches

\* What a set_address call does to the template and to the Executions that
\* exist: the length and every cell but the one at the address stay, the
\* cell at the address (if there is one) holds the value, the Executions
\* are as they were.
PatchEffect ==
    LET p == patches'[Len(patches')]
    IN  /\ Len(code') = Len(code)
        /\ \A a \in 0..(Len(code) - 1) : a # p.addr => code'[a + 1] = code[a + 1]
        /\ p.addr < Len(code) => code'[p.addr + 1] = p.value
        /\ execs' = execs

\* The patches in force: in range, and not overwritten by a later one.
InForce ==
    {k \in 1..Len(patches) :
        /\ patches[k].addr < Len(code)
        /\ \A l \in (k + 1)..Len(patches) : patches[l].addr # patches[k].addr}

\* C28 as stated: a patch overwrites exactly the cell at its address and
\* leaves the other cells, the length and the existing Executions alone,
\* and every Execution spawned afterwards, by any call, starts with the
\* patched value at that address.
C28_EveryExecution ==
    [][ /\ Patches => PatchEffect
        /\ Spawns =>
             \A k \in InForce : \A j \in DOMAIN execs' :
                 execs'[j].state[patches[k].addr + 1] = patches[k].value
      ]_vars

\* C28: a patch overwrites exactly the cell at its address and leaves the
\* other cells, the length and the existing Executions alone; every
\* Execution spawned afterwards by run or run_concurrently starts with the
\* patched value at that address, and so does one spawned by run_problem2
\* unless the address is 1 or 2, where it starts with the noun or the verb;
\* a patch at or past the end of the template changes no cell.
C28_Patch ==
    [][ /\ Patches => PatchEffect
        /\ Spawns =>
             \A k \in InForce : \A j \in DOMAIN execs' :
                 execs'[j].state[patches[k].addr + 1] =
                    (IF args'.called /\ patches[k].addr = 1 THEN args'.noun
                     ELSE IF args'.called /\ patches[k].addr = 2 THEN args'.verb
                     ELSE patches[k].value)
      ]_vars

\* Address 0 set to 2 before a run, as the arcade game of problem 13 is
\* started: the Execution of the run began with the patched tape.
C28_Witness ==
    /\ patches = <<[addr |-> 0, value |-> 2, at |-> "idle"]>>
    /\ code = <<2, 0, 4, 0, 99>>
    /\ last.api = "run"
    /\ trace[1].pre.state = code
    /\ pc = "done"

\* C29: every call of run, run_concurrently and set_address returns: it
\* ends in success or in a typed ExecuteError for every argument, a
\* set_address at or past the end of the template included, and never in
\* an abort.
C29_TypedResults ==
    ~args.called =>
      /\ result.kind # "Abort"
      /\ pc = "done" => result.kind \in {"Ok", "OutOfBounds", "BadOp", "InputError", "OutputError"}

(***************************************************************************)
(* Properties of OutOfBounds.                                              *)
(***************************************************************************)
\* The call made is run_problem2 and it has returned, with no set_address
\* since.
Problem2Returned ==
    /\ args.called
    /\ pc = "done"
    /\ \A k \in 1..Len(patches) : patches[k].at = "idle"

\* C30: no step returns OutOfBounds, and neither does run or
\* run_concurrently, whatever the program does; run_problem2 returns
\* OutOfBounds exactly when its output_index is not below the length of the
\* program, with that index in the error, no Execution created and no
\* instruction executed.
C30_OutOfBounds ==
    /\ \A i \in 1..Len(trace) : trace[i].kind # "OutOfBounds"
    /\ last.kind # "OutOfBounds"
    /\ ~args.called => result.kind # "OutOfBounds"
    /\ Problem2Returned =>
         (result.kind = "OutOfBounds" <=> args.output_index >= Len(code))
    /\ result.kind = "OutOfBounds" =>
         /\ result.pos = args.output_index
         /\ execs = <<>>
         /\ trace = <<>>

\* run_problem2 with the index just past a patched program: OutOfBounds of
\* that index.
C30_Witness ==
    /\ Problem2Returned
    /\ patches # <<>>
    /\ Len(code) = 5
    /\ result = [kind |-> "OutOfBounds", code |-> 0, pos |-> 5]

(***************************************************************************)
(* Properties of StaticIO.                                                 *)
(***************************************************************************)
\* The calls of one kind in a log of channel calls, in order.
RECURSIVE CallsOf(_, _)
CallsOf(log, op) ==
    IF Len(log) = 0 THEN <<>>
    ELSE LET front == CallsOf(SubSeq(log, 1, Len(log) - 1), op)
         IN  IF log[Len(log)].op = op THEN Append(front, log[Len(log)]) ELSE front

Values(calls) == [k \in 1..Len(calls) |-> calls[k].val]

\* C31: the k-th input call on a StaticIO returns the k-th value passed to
\* new while there is one and None on every later call; no output call is
\* refused; outputs() is the list of the values output so far, in the order
\* of the calls.
C31_StaticIO ==
    LET ins == CallsOf(sio_log, "input")
        outs == CallsOf(sio_log, "output")
    IN  /\ \A k \in 1..Len(ins) :
             IF k <= Len(sio_inputs)
             THEN ins[k].some /\ ins[k].val = sio_inputs[k]
             ELSE ~ins[k].some
        /\ \A k \in 1..Len(outs) : outs[k].some
        /\ StaticIO_outputs(sio) = Values(outs)

\* Three distinct inputs were handed out in order, a fourth call found the
\* queue empty, and an output was accepted in between.
C31_Witness ==
    /\ sio_inputs = <<3, 1, 2>>
    /\ Len(CallsOf(sio_log, "input")) = 4
    /\ Len(CallsOf(sio_log, "output")) = 1
    /\ sio_log[2].op = "output"
    /\ ~sio_log[Len(sio_log)].some

(***************************************************************************)
(* Properties of utils::permute.                                           *)
(***************************************************************************)
RECURSIVE Factorial(_)
Factorial(n) == IF n <= 1 THEN 1 ELSE n * Factorial(n - 1)

Range(s) == {s[k] : k \in 1..Len(s)}

\* the iterator has returned None
PermEnded == perm_ended > 0

\* C32: the iterator over n distinct values returns n! items before its first
\* None and none after it; the items returned are pairwise distinct, and each
\* has length n and contains every input value.
C32_Permutations ==
    LET n == Len(perm.values)
    IN  /\ Len(perm_items) <= Factorial(n)
        /\ PermEnded => Len(perm_items) = Factorial(n)
        /\ Cardinality(Range(perm_items)) = Len(perm_items)
        /\ \A k \in 1..Len(perm_items) :
             /\ Len(perm_items[k]) = n
             /\ Range(perm_items[k]) = Range(perm.values)

\* The iterator over four values has returned 24 items and then None twice.
C32_Witness ==
    /\ perm.values = <<7, 5, 8, 6>>
    /\ Len(perm_items) = 24
    /\ perm_ended = 2

(***************************************************************************)
(* Properties of tree::Tree::shortest_path.                                *)
(***************************************************************************)
Adjacent(t, a, b) == t[a] = b \/ t[b] = a

\* C33: in a rooted tree the result of shortest_path(start, end) begins with
\* start, ends with end, steps between parent and child only, and repeats no
\* node; for start = end it is <<start>>.  It never panics.
C33_ShortestPath ==
    path_call.called =>
        LET p == path_call.path
        IN  /\ ~path_call.panic
            /\ Len(p) >= 1
            /\ p[1] = path_call.start
            /\ p[Len(p)] = path_call.end
            /\ \A k \in 1..(Len(p) - 1) : Adjacent(tree, p[k], p[k + 1])
            /\ \A a, b \in 1..Len(p) : p[a] = p[b] => a = b
            /\ path_call.start = path_call.end => p = <<path_call.start>>

\* A path that climbs from start to a common ancestor that is neither end
\* point and descends two levels to end.
C33_Witness ==
    /\ path_call.called
    /\ Len(path_call.path) = 4
    /\ tree[path_call.start] = path_call.path[2]
    /\ tree[path_call.path[3]] = path_call.path[2]
    /\ tree[path_call.end] = path_call.path[3]

(***************************************************************************)
(* run_concurrently against run on each channel alone.                     *)
(***************************************************************************)
\* A whole run of one Execution alone, up to `fuel` steps: the kind of its
\* last step and the IO calls it made, after the calls `calls`.
RECURSIVE Solo(_, _, _, _, _)
Solo(e, io, checked, fuel, calls) ==
    Let(step(e, io, checked), LAMBDA r :
        IF r.kind \in {"Running", "DidOutput"} /\ fuel > 0
        THEN Solo(r.exec, r.io, checked, fuel - 1, calls \o r.calls)
        ELSE [kind |-> r.kind, calls |-> calls \o r.calls])

\* The calls channel id has received so far, without the channel tag.
ChannelCalls(log, id) ==
    LET own == SelectSeq(log, LAMBDA c : c.ch = id)
    IN  [k \in 1..Len(own) |-> [op |-> own[k].op, val |-> own[k].val, some |-> own[k].some]]

\* The channel after it has received the calls.
RECURSIVE Replay(_, _)
Replay(io, calls) ==
    IF Len(calls) = 0 THEN io
    ELSE LET before == Replay(io, SubSeq(calls, 1, Len(calls) - 1))
             c == calls[Len(calls)]
         IN  IF c.op = "input" THEN IO_input(before).io ELSE IO_output(before, c.val).io

\* The first step of Execution id in the trace from step k on; 0 if none.
RECURSIVE FirstTurnFrom(_, _)
FirstTurnFrom(id, k) ==
    IF k > Len(trace) THEN 0
    ELSE IF trace[k].exec = id THEN k
    ELSE FirstTurnFrom(id, k + 1)

FirstTurn == [id \in DOMAIN ios |-> FirstTurnFrom(id, 1)]

\* The channel as it was passed to run_concurrently.
Passed(id) == IF FirstTurn[id] = 0 THEN ios[id] ELSE trace[FirstTurn[id]].io

IsPrefix(s, t) == Len(s) <= Len(t) /\ s = SubSeq(t, 1, Len(s))

\* run on channel id as passed, alone, in a build that checks overflow: a
\* run that halts there is the same in a build that wraps.
Alone(id) == Solo(Execution_new(code), Passed(id), TRUE, PerExecSteps, <<>>)

\* The program halts without error on every channel.
HaltsOnEvery == \A id \in DOMAIN ios : Alone(id).kind = "Halted"

\* C34: under run_concurrently, if the program halts without error on every
\* channel run alone, the calls a channel has received after any step of its
\* Execution are a prefix of the calls it receives under run alone, and for
\* every channel all of them when the call returns (a channel receives calls
\* in the steps of its own Execution only, which the next part states);
\* each channel has been changed by the calls of its own Execution only; each
\* Execution took its first step from position 0 and relative base 0 on a
\* copy of the code; and the first turns follow the order of the list.
C34_Interleaving ==
    Concurrent =>
      /\ LET alone == Alone(last.exec)
             here == ChannelCalls(iolog, last.exec)
         IN  \/ /\ IsPrefix(here, alone.calls)
                /\ pc = "done" =>
                      \A id \in DOMAIN ios : ChannelCalls(iolog, id) = Alone(id).calls
             \/ ~HaltsOnEvery
      /\ LET first == FirstTurn
         IN  \A id \in DOMAIN ios :
                /\ ios[id] = Replay(Passed(id), ChannelCalls(iolog, id))
                /\ first[id] # 0 =>
                      /\ trace[first[id]].pre = Execution_new(code)
                      /\ trace[first[id]].pre.pos = 0
                      /\ trace[first[id]].pre.relative_base = 0
                      /\ \A other \in 1..(id - 1) :
                            first[other] # 0 /\ first[other] < first[id]

\* Three Executions on different inputs have interleaved their outputs and
\* the call has returned success.
C34_Witness ==
    /\ Concurrent
    /\ pc = "done"
    /\ result.kind = "Ok"
    /\ Len(ios) = 3
    /\ HaltsOnEvery
    /\ ios[1].outputs # ios[2].outputs
    /\ \A id \in DOMAIN ios : Len(ios[id].outputs) >= 2
    /\ \E i \in 1..(Len(iolog) - 2) :
         iolog[i].ch = 3 /\ iolog[i + 1].ch = 1 /\ iolog[i + 2].ch = 2

(***************************************************************************)
(* Properties of Program::run_problem2.                                    *)
(***************************************************************************)
TypedErrors == {"BadOp", "InputError", "OutputError", "OutOfBounds"}

\* C35: run_problem2 with an output_index below the length of the program,
\* whatever that length, returns a typed error or the cell output_index of
\* the final tape of an Execution that started, without IO, on the program
\* with noun in cell 1 and verb in cell 2; that index is inside the final
\* tape.
C35_RunProblem2 ==
    (Problem2Returned /\ args.output_index < Len(code)) =>
        \/ result.kind \in TypedErrors
        \/ /\ result.kind = "Ok"
           /\ trace # <<>>
           /\ trace[1].pre.pos = 0
           /\ trace[1].pre.relative_base = 0
           /\ Len(trace[1].pre.state) = Len(code)
           /\ \A a \in 0..(Len(code) - 1) :
                Cell(trace[1].pre.state, a) =
                    IF a = 1 THEN args.noun ELSE IF a = 2 THEN args.verb ELSE code[a + 1]
           /\ \A k \in 1..Len(trace) : trace[k].io = NoIO
           /\ args.output_index < Len(last.post.state)
           /\ result.code = Cell(last.post.state, args.output_index)

(***************************************************************************)
(* Properties of the Droid of problem15.                                   *)
(***************************************************************************)
\* C36: the assertion of Droid::input never fails: a goal taken from the
\* frontier is never the location the droid stands on, so the plan towards
\* it has a move left; and input returns None only with no planned move and
\* an empty frontier.
C36_AssertionHolds ==
    /\ droid_call.panic # "assert"
    /\ droid_call.popped => droid_call.goal # droid_call.from
    /\ (droid_call.op = "input" /\ ~droid_call.some /\ droid_call.panic = "") =>
          droid.plan = <<>> /\ droid.frontier = <<>>

(***************************************************************************)
(* Properties of the Game of problem13.                                    *)
(***************************************************************************)
TileOf(v) ==
    CASE v = 0 -> "Empty" [] v = 1 -> "Wall" [] v = 2 -> "Block" [] v = 3 -> "Paddle"
      [] v = 4 -> "Ball" [] OTHER -> "none"

\* The latest call was the output that completes the triple (x, y, v).
Completes(x, y, v) ==
    /\ game_call.op = "output"
    /\ game_call.pre.state = <<x, y>>
    /\ game_call.value = v

SameScreen == game.screen = game_call.pre.screen
SameScore == game.score = game_call.pre.score

\* C37: the decoder holds as many values as outputs were accepted modulo 3,
\* so it is empty after every 3k accepted outputs; a triple (-1, 0, v) is
\* accepted, sets the score to v and changes no tile; another triple with
\* x, y >= 0 and v in 0..4 is accepted and sets the tile at (x, y) to v, and
\* the ball or paddle position for those tiles; a triple with another v or a
\* negative coordinate is refused and changes neither screen nor score.
C37_Triples ==
    /\ Len(game.state) = game_accepted % 3
    /\ \A x \in GameValues, y \in GameValues, v \in GameValues :
         Completes(x, y, v) =>
            IF x = -1 /\ y = 0
            THEN /\ game_call.some
                 /\ game.score = Some(v)
                 /\ SameScreen
                 /\ game.ball = game_call.pre.ball
                 /\ game.paddle = game_call.pre.paddle
            ELSE IF x >= 0 /\ y >= 0 /\ v \in 0..4
            THEN /\ game_call.some
                 /\ DOMAIN game.screen = DOMAIN game_call.pre.screen \cup {<<x, y>>}
                 /\ game.screen[<<x, y>>] = TileOf(v)
                 /\ \A c \in DOMAIN game_call.pre.screen :
                        c # <<x, y>> => game.screen[c] = game_call.pre.screen[c]
                 /\ game.ball = IF v = 4 THEN Some(<<x, y>>) ELSE game_call.pre.ball
                 /\ game.paddle = IF v = 3 THEN Some(<<x, y>>) ELSE game_call.pre.paddle
                 /\ SameScore
            ELSE /\ ~game_call.some
                 /\ SameScreen
                 /\ SameScore
    /\ (game_call.op = "output" /\ Len(game_call.pre.state) < 2) =>
          game_call.some /\ SameScreen /\ SameScore

\* A ball was drawn, then a triple with a negative coordinate was refused,
\* with the screen and the score of before.
C37_Witness ==
    /\ game.screen = (<<3, 0>> :> "Ball")
    /\ game.ball = Some(<<3, 0>>)
    /\ Completes(-1, 4, 4)
    /\ ~game_call.some
    /\ game_accepted = 5

(***************************************************************************)
(* Properties of the RobotIO of problem11.                                 *)
(***************************************************************************)
\* The outputs that returned, in order.
RECURSIVE Outputs(_)
Outputs(log) ==
    IF Len(log) = 0 THEN <<>>
    ELSE LET c == log[Len(log)]
             front == Outputs(SubSeq(log, 1, Len(log) - 1))
         IN  IF c.op = "output" /\ ~c.panic THEN Append(front, c) ELSE front

\* A quarter turn to the left or to the right of a heading.
TurnLeft(d) ==
    CASE d = "Up" -> "Left" [] d = "Left" -> "Down" [] d = "Down" -> "Right"
      [] d = "Right" -> "Up"

TurnRight(d) ==
    CASE d = "Up" -> "Right" [] d = "Right" -> "Down" [] d = "Down" -> "Left"
      [] d = "Left" -> "Up"

Ahead(p, d) ==
    CASE d = "Up" -> <<p[1], p[2] + 1>> [] d = "Down" -> <<p[1], p[2] - 1>>
      [] d = "Left" -> <<p[1] - 1, p[2]>> [] d = "Right" -> <<p[1] + 1, p[2]>>

UnitMove(c) == Abs(c.post.position[1] - c.pre.position[1])
                   + Abs(c.post.position[2] - c.pre.position[2]) = 1

Moves(outs) == Cardinality({k \in 1..Len(outs) : outs[k].post.position # outs[k].pre.position})

\* The colour code of panel p after the outputs outs: the value of the latest
\* odd-numbered output made on it, else 1 on a white starting panel, else 0.
PanelCode(outs, p) ==
    LET paints == {k \in 1..Len(outs) : k % 2 = 1 /\ outs[k].pre.position = p}
    IN  IF paints # {} THEN outs[CHOOSE k \in paints : \A j \in paints : j <= k].value
        ELSE IF p = <<0, 0>> /\ start_color = "White" THEN 1 ELSE 0

\* C38: of the outputs that return, each odd-numbered one sets the colour of
\* the panel under the robot and leaves position and heading as they are;
\* each even-numbered one turns the heading a quarter turn, left on 0 and
\* right on 1, and moves the robot one panel along the new heading, painting
\* nothing; 2k outputs make k unit moves; every input returns the colour of
\* the panel under the robot.
C38_Alternation ==
    LET outs == Outputs(robot_log)
    IN  /\ \A k \in 1..Len(outs) :
             IF k % 2 = 1
             THEN /\ outs[k].post.position = outs[k].pre.position
                  /\ outs[k].post.direction = outs[k].pre.direction
                  /\ outs[k].post.panels =
                        insert(outs[k].pre.panels, outs[k].pre.position,
                               IF outs[k].value = 0 THEN "Black" ELSE "White")
             ELSE /\ outs[k].post.direction =
                        IF outs[k].value = 0 THEN TurnLeft(outs[k].pre.direction)
                        ELSE TurnRight(outs[k].pre.direction)
                  /\ outs[k].post.position =
                        Ahead(outs[k].pre.position, outs[k].post.direction)
                  /\ UnitMove(outs[k])
                  /\ outs[k].post.panels = outs[k].pre.panels
        /\ Moves(outs) = Len(outs) \div 2
        /\ \A k \in 1..Len(robot_log) :
             robot_log[k].op = "input" =>
                /\ robot_log[k].ret.some
                /\ robot_log[k].ret.val =
                      PanelCode(Outputs(SubSeq(robot_log, 1, k - 1)), robot_log[k].pre.position)

\* The robot, started on a white panel, painted it black, turned left and
\* moved, painted white, turned right and moved, and saw an unpainted panel.
C38_Witness ==
    /\ start_color = "White"
    /\ Len(robot_log) = 5
    /\ [k \in 1..4 |-> robot_log[k].value] = <<0, 0, 1, 1>>
    /\ robot_io.robot.position = <<-1, 1>>
    /\ robot_io.robot.panels = (<<0, 0>> :> "Black" @@ <<-1, 0>> :> "White")
    /\ robot_log[5].op = "input"
    /\ robot_log[5].ret = Some(0)

====
